---- MODULE Spec2Model ----
(***************************************************************************)
(* A model of the orchestration engine of SaasAgent:                       *)
(*   - backend/app/agents/base_agent.py: BaseAgent (lifecycle, task queue, *)
(*     worker loop, metrics);                                              *)
(*   - backend/app/agents/agent_orchestrator.py: AgentOrchestrator (agent  *)
(*     registry, workflow compilation, the step function, execute/cancel). *)
(*                                                                         *)
(* The program runs on one asyncio event loop: a coroutine runs without    *)
(* interruption from one suspension point (an await that really suspends)  *)
(* to the next.  Every action below is one such uninterrupted stretch.     *)
(* The suspension points are: asyncio.sleep in the worker loop, the        *)
(* abstract coroutines initialize / process_task / cleanup of an agent,    *)
(* the start of a freshly created asyncio task, the hand-over between two  *)
(* graph nodes, and `await task` in execute_workflow.                      *)
(***************************************************************************)
EXTENDS Integers, Sequences, FiniteSets, TLC

VARIABLES
    objs,               \* every BaseAgent instance constructed so far: object id -> its state
    agents,             \* AgentOrchestrator.agents: agent_id -> object id
    workflows,          \* AgentOrchestrator.workflows: workflow_id -> compiled graph (with its steps)
    workflow_states,    \* AgentOrchestrator.workflow_states: workflow_id -> WorkflowState
    running_workflows,  \* AgentOrchestrator.running_workflows: workflow_id -> the asyncio task (its run number)
    execs,              \* the execute_workflow calls in progress, each with its inner task's position
    calls,              \* the create_agent, remove_agent and shutdown calls in progress (suspended in an
                        \* agent's initialize() or cleanup())
    hist,               \* per workflow: the runs accepted so far, the input of the latest run and, per
                        \* step of the latest run, its attempts (step function entries past the
                        \* condition test) and calls (of process_task)
    outcome,            \* how the most recent call of the public interface ended ("NotFound" and
                        \* "Conflict" are the ValueErrors raised for an unknown and for a taken id,
                        \* "InitError", "CleanupError" and "KeyError" the exceptions that leave
                        \* create_agent, remove_agent and shutdown)
    now                 \* the clock read by datetime.now()

vars == <<objs, agents, workflows, workflow_states, running_workflows, execs, calls, hist, outcome, now>>

orchVars == <<agents, workflows, workflow_states, running_workflows, execs, calls, hist>>

----------------------------------------------------------------------------
(* Bounds of the model *)

MaxTasks == 2       \* add_task calls per agent
MaxPriority == 2    \* priorities are drawn from 1..MaxPriority
MaxStarts == 2      \* start() calls per agent that get past the is_running guard
MaxObjs == 2        \* BaseAgent instances constructed
MaxRuns == 2        \* accepted execute_workflow calls per workflow id
MaxTime == 1        \* clock values 0..MaxTime
StepMaxRetries == 1 \* max_retries given to the steps of the modelled workflows
MaxUpdates == 4     \* update_memory calls per agent

None == "None"

\* Optional[datetime] = None, among clock values
NoTime == -1

\* Optional[AgentTask] = None, among task ids
NoTask == 0

Priorities == 1..MaxPriority

\* update_memory: the length short-term memory may not exceed, and the length
\* it is cut to
ShortTermLimit == 100

ShortTermKept == 50

----------------------------------------------------------------------------
(* base_agent.py *)

\* AgentTask: its arrival number stands for its identity
AgentTask(n, p) == [id |-> n, priority |-> p]

\* what a worker loop stores in task.result and task.error: the value
\* process_task returned, and str(e) of the exception it raised
TaskResult == "result"

TaskError == "task error"

\* BaseAgent.__init__: the state of a freshly constructed agent.
\* starting/stopping: start()/stop() calls suspended in initialize()/cleanup();
\* waiting: worker loops suspended in asyncio.sleep (or created and not yet run);
\* processing: the tasks whose process_task a worker loop is awaiting;
\* arrivals, starts: the add_task and start calls made; tasks: every AgentTask
\* submitted (priority, status, and whether the agent was executing no task
\* when it was submitted); started: the task ids in the order their execution
\* began; together: the pairs of tasks that were pending at the same time.
\* success_rate is kept as the fraction <<numerator, denominator>> in lowest
\* terms (0.0 is <<0, 1>>).
\* short_term, long_term, episodic, semantic: the AgentMemory; a message of
\* short-term memory is the number of its addition (the k-th message ever
\* added is k), remembered: the messages added so far, updates: the
\* update_memory calls made.
BaseAgent ==
    [ agent_id |-> None,
      capabilities |-> <<>>,
      config |-> <<>>,
      is_running |-> FALSE,
      status |-> "idle",
      task_queue |-> <<>>,
      current_task |-> NoTask,
      tasks_completed |-> 0,
      tasks_failed |-> 0,
      success_rate |-> <<0, 1>>,
      starting |-> 0,
      stopping |-> 0,
      waiting |-> 0,
      processing |-> {},
      arrivals |-> 0,
      starts |-> 0,
      started |-> <<>>,
      together |-> {},
      tasks |-> <<>>,
      short_term |-> <<>>,
      long_term |-> <<>>,
      episodic |-> <<>>,
      semantic |-> <<>>,
      remembered |-> 0,
      updates |-> 0 ]

\* agent_class(agent_id=agent_id, name=name, capabilities=capabilities, config=config)
Construct(agent_id, capabilities, config) ==
    [BaseAgent EXCEPT !.agent_id = agent_id, !.capabilities = capabilities, !.config = config]

\* list.sort(key=lambda t: t.priority, reverse=True) is a stable sort: an
\* insertion sort that puts each task behind every task of priority >= its own.
RECURSIVE InsertByPriority(_, _)
InsertByPriority(s, t) ==
    IF s = <<>> THEN <<t>>
    ELSE IF Head(s).priority >= t.priority
         THEN <<Head(s)>> \o InsertByPriority(Tail(s), t)
         ELSE <<t>> \o s

RECURSIVE SortByPriorityAscending(_)
SortByPriorityAscending(s) ==
    IF s = <<>> THEN <<>>
    ELSE LET r == SortByPriorityAscending(SubSeq(s, 1, Len(s) - 1))
             t == s[Len(s)]
             k == Cardinality({i \in 1..Len(r) : r[i].priority <= t.priority})
         IN SubSeq(r, 1, k) \o <<t>> \o SubSeq(r, k + 1, Len(r))

RECURSIVE SortByPriority(_)
SortByPriority(s) ==
    IF s = <<>> THEN <<>>
    ELSE InsertByPriority(SortByPriority(SubSeq(s, 1, Len(s) - 1)), s[Len(s)])

\* BaseAgent.add_task on agent state ag, for a new task of priority p
add_task(ag, p) ==
    LET task == AgentTask(ag.arrivals + 1, p)
    IN [ag EXCEPT
          !.task_queue = SortByPriority(Append(@, task)),
          !.arrivals = @ + 1,
          !.together = @ \cup {{task.id, q} : q \in {ag.task_queue[i].id : i \in 1..Len(ag.task_queue)}},
          !.tasks = @ @@ (task.id :> [priority |-> p, status |-> "idle",
                                      result |-> None, error |-> None,
                                      idle |-> ag.processing = {}])]

\* task_queue.pop(0): the index taken from the queue
PopLast(q) == Len(q)

PopIndex(q) == 1

RemoveAt(q, i) == SubSeq(q, 1, i - 1) \o SubSeq(q, i + 1, Len(q))

\* _process_task_queue from the `while self._is_running` test to the next
\* suspension, for a loop that is at the test (and counted nowhere in ag)
LoopTop(ag) ==
    IF ~ag.is_running THEN ag
    ELSE IF ag.task_queue = <<>> THEN [ag EXCEPT !.waiting = @ + 1]
    ELSE LET i == PopIndex(ag.task_queue)
             task == ag.task_queue[i]
         IN [ag EXCEPT
               !.task_queue = RemoveAt(@, i),
               !.current_task = task.id,
               !.tasks[task.id].status = "running",
               !.processing = @ \cup {task},
               !.started = Append(@, task.id)]

RECURSIVE GCD(_, _)
GCD(a, b) == IF b = 0 THEN a ELSE GCD(b, a % b)

\* n / d, in lowest terms
Ratio(n, d) == <<n \div GCD(n, d), d \div GCD(n, d)>>

update_metrics_rate_on_success(ag, success) ==
    IF success
    THEN [ag EXCEPT !.tasks_completed = @ + 1,
                    !.success_rate = Ratio(ag.tasks_completed + 1,
                                           ag.tasks_completed + 1 + ag.tasks_failed)]
    ELSE [ag EXCEPT !.tasks_failed = @ + 1]

\* _update_metrics
update_metrics(ag, success) ==
    LET a == IF success THEN [ag EXCEPT !.tasks_completed = @ + 1]
             ELSE [ag EXCEPT !.tasks_failed = @ + 1]
        total_tasks == a.tasks_completed + a.tasks_failed
    IN IF total_tasks > 0
       THEN [a EXCEPT !.success_rate = Ratio(a.tasks_completed, total_tasks)]
       ELSE a

LoopAfterTaskLeaving(ag, task, success) ==
    LET a1 == [ag EXCEPT
                 !.processing = @ \ {task},
                 !.tasks[task.id].status = IF success THEN "completed" ELSE "failed",
                 !.tasks[task.id].result = IF success THEN TaskResult ELSE @,
                 !.tasks[task.id].error = IF success THEN @ ELSE TaskError]
        a2 == [update_metrics(a1, success) EXCEPT !.current_task = NoTask]
    IN IF success THEN LoopTop(a2) ELSE a2

\* _process_task_queue after process_task(task) returned (success) or raised
LoopAfterTask(ag, task, success) ==
    LET a1 == [ag EXCEPT
                 !.processing = @ \ {task},
                 !.tasks[task.id].status = IF success THEN "completed" ELSE "failed",
                 !.tasks[task.id].result = IF success THEN TaskResult ELSE @,
                 !.tasks[task.id].error = IF success THEN @ ELSE TaskError]
        a2 == update_metrics(a1, success)
    IN LoopTop([a2 EXCEPT !.current_task = NoTask])

\* BaseAgent.start up to `await self.initialize()`
start_call(ag) ==
    IF ag.is_running THEN ag
    ELSE [ag EXCEPT !.starting = @ + 1, !.starts = @ + 1]

start_done_flagged_early(ag, ok) ==
    IF ok THEN [ag EXCEPT
                  !.starting = @ - 1,
                  !.is_running = TRUE,
                  !.status = "running",
                  !.waiting = @ + 1]
    ELSE [ag EXCEPT !.starting = @ - 1, !.is_running = TRUE, !.status = "failed"]

\* BaseAgent.start after initialize() returned (ok) or raised
start_done(ag, ok) ==
    IF ok THEN [ag EXCEPT
                  !.starting = @ - 1,
                  !.is_running = TRUE,
                  !.status = "running",
                  !.waiting = @ + 1]
    ELSE [ag EXCEPT !.starting = @ - 1, !.status = "failed"]

\* BaseAgent.stop up to `await self.cleanup()`
stop_call(ag) ==
    IF ~ag.is_running THEN ag
    ELSE [ag EXCEPT !.is_running = FALSE, !.status = "idle", !.stopping = @ + 1]

\* BaseAgent.stop after cleanup() returned (ok) or raised
stop_done(ag, ok) ==
    IF ok THEN [ag EXCEPT !.stopping = @ - 1]
    ELSE [ag EXCEPT !.stopping = @ - 1, !.status = "failed"]

\* list[-n:]
LastN(s, n) == IF Len(s) <= n THEN s ELSE SubSeq(s, Len(s) - n + 1, Len(s))

\* dict.update, for an argument that may be None
UpdateWith(d, e) ==
    IF e = <<>> THEN d
    ELSE [k \in DOMAIN d \cup DOMAIN e |-> IF k \in DOMAIN e THEN e[k] ELSE d[k]]

update_memory_keeping_oldest(ag, short_term, long_term, episodic, semantic, timestamp) ==
    LET extended == ag.short_term \o short_term
    IN [ag EXCEPT
          !.short_term = IF Len(extended) > ShortTermLimit
                         THEN SubSeq(extended, 1, ShortTermKept)
                         ELSE extended,
          !.long_term = UpdateWith(@, long_term),
          !.episodic = IF episodic = <<>> THEN @
                       ELSE Append(@, UpdateWith(("timestamp" :> timestamp), episodic)),
          !.semantic = UpdateWith(@, semantic),
          !.remembered = @ + Len(short_term),
          !.updates = @ + 1]

\* BaseAgent.update_memory.  An argument that is None is <<>>; an empty list
\* or dict has the effect of None, except for episodic, which is never given
\* empty here.
update_memory(ag, short_term, long_term, episodic, semantic, timestamp) ==
    LET extended == ag.short_term \o short_term
    IN [ag EXCEPT
          !.short_term = IF Len(extended) > ShortTermLimit
                         THEN LastN(extended, ShortTermKept)
                         ELSE extended,
          !.long_term = UpdateWith(@, long_term),
          !.episodic = IF episodic = <<>> THEN @
                       ELSE Append(@, UpdateWith(("timestamp" :> timestamp), episodic)),
          !.semantic = UpdateWith(@, semantic),
          !.remembered = @ + Len(short_term),
          !.updates = @ + 1]

Objects == DOMAIN objs

\* the worker loops of an agent that have not returned
Loops(ag) == ag.waiting + Cardinality(ag.processing)

----------------------------------------------------------------------------
(* Actions on one agent *)

AddTask(o, p) ==
    /\ objs[o].arrivals < MaxTasks
    /\ objs' = [objs EXCEPT ![o] = add_task(@, p)]
    /\ UNCHANGED <<orchVars, outcome, now>>

\* the callers of one agent's start() and stop() await each call before the next
LifecycleCallPending(o) == objs[o].starting > 0 \/ objs[o].stopping > 0

Start(o) ==
    /\ objs[o].starts < MaxStarts
    /\ ~LifecycleCallPending(o)
    /\ objs' = [objs EXCEPT ![o] = start_call(@)]
    /\ UNCHANGED <<orchVars, outcome, now>>

StartDone(o, ok) ==
    /\ objs[o].starting > 0
    /\ objs' = [objs EXCEPT ![o] = start_done(@, ok)]
    /\ UNCHANGED <<orchVars, outcome, now>>

Stop(o) ==
    /\ ~LifecycleCallPending(o)
    /\ objs' = [objs EXCEPT ![o] = stop_call(@)]
    /\ UNCHANGED <<orchVars, outcome, now>>

StopDone(o, ok) ==
    /\ objs[o].stopping > 0
    /\ objs' = [objs EXCEPT ![o] = stop_done(@, ok)]
    /\ UNCHANGED <<orchVars, outcome, now>>

\* a worker loop returns from asyncio.sleep(1), or runs for the first time
LoopWake(o) ==
    /\ objs[o].waiting > 0
    /\ objs' = [objs EXCEPT ![o] = LoopTop([@ EXCEPT !.waiting = @ - 1])]
    /\ UNCHANGED <<orchVars, outcome, now>>

\* the process_task a worker loop awaits returns or raises
LoopTaskDone(o, task, success) ==
    /\ task \in objs[o].processing
    /\ objs' = [objs EXCEPT ![o] = LoopAfterTask(@, task, success)]
    /\ UNCHANGED <<orchVars, outcome, now>>

\* the messages of a call that adds n messages to agent ag
Batch(ag, n) == [i \in 1..n |-> ag.remembered + i]

\* the numbers of messages given to update_memory in one call: none, one, and
\* numbers that reach and pass the limit and the kept length
BatchSizes == {0, 1, ShortTermKept - 1, ShortTermKept, ShortTermLimit + 1}

\* the long_term, episodic and semantic arguments given to update_memory
MemoryUpdates == {<<>>, ("topic" :> "orders")}

UpdateMemory(o, n, long_term, episodic, semantic) ==
    /\ objs[o].updates < MaxUpdates
    /\ objs' = [objs EXCEPT ![o] =
           update_memory(@, Batch(@, n), long_term, episodic, semantic, now)]
    /\ UNCHANGED <<orchVars, outcome, now>>

----------------------------------------------------------------------------
(* One agent used through the BaseAgent interface *)

\* no call of the public interface has ended yet
NoOutcome == [op |-> None, result |-> None]

InitOrch ==
    /\ agents = <<>>
    /\ workflows = <<>>
    /\ workflow_states = <<>>
    /\ running_workflows = <<>>
    /\ execs = {}
    /\ calls = {}
    /\ hist = <<>>
    /\ outcome = NoOutcome
    /\ now = 0

InitAgent ==
    /\ objs = (1 :> BaseAgent)
    /\ InitOrch

NextAgent ==
    \/ \E o \in Objects, p \in Priorities : AddTask(o, p)
    \/ \E o \in Objects : Start(o)
    \/ \E o \in Objects, ok \in BOOLEAN : StartDone(o, ok)
    \/ \E o \in Objects : Stop(o)
    \/ \E o \in Objects, ok \in BOOLEAN : StopDone(o, ok)
    \/ \E o \in Objects : LoopWake(o)
    \/ \E o \in Objects, success \in BOOLEAN :
          \E task \in objs[o].processing : LoopTaskDone(o, task, success)

SpecAgent == InitAgent /\ [][NextAgent]_vars

\* one agent whose memory is updated
NextMemory ==
    \E o \in Objects, n \in BatchSizes :
        \E long_term \in MemoryUpdates, episodic \in MemoryUpdates, semantic \in MemoryUpdates :
            UpdateMemory(o, n, long_term, episodic, semantic)

SpecMemory == InitAgent /\ [][NextMemory]_vars

----------------------------------------------------------------------------
(* agent_orchestrator.py *)

WorkflowIds == {"w1", "w2"}

\* the agent type registered at startup; its class takes BaseAgent's constructor arguments
AgentType == "worker"

\* WorkflowStep
WorkflowStep(id, input_mapping, output_mapping, conditions) ==
    [ id |-> id,
      agent_type |-> AgentType,
      input_mapping |-> input_mapping,
      output_mapping |-> output_mapping,
      conditions |-> conditions,
      retry_count |-> 0,
      max_retries |-> StepMaxRetries ]

\* The workflows given to create_workflow: the graph A -> B -> END.  A reads
\* context key x into its input field `in` and writes its result field `out`
\* to context key y; B runs unconditionally ("plain") or only when y = 5 ("cond").
\* In the graph kind "merge", B also reads context key z into its input field
\* `aux` and writes both its result fields `out` and `alt` to context key z.
\* An output mapping is a dict, iterated in insertion order: it is kept as
\* the sequence of its (result key, context key) pairs.
StepA == WorkflowStep("A", ("in" :> "x"), << <<"out", "y">> >>, <<>>)

StepB(kind) ==
    WorkflowStep("B",
                 IF kind = "merge" THEN ("in" :> "y") @@ ("aux" :> "z") ELSE ("in" :> "y"),
                 IF kind = "merge" THEN << <<"out", "z">>, <<"alt", "z">> >> ELSE <<>>,
                 IF kind = "cond" THEN ("y" :> 5) ELSE <<>>)

GraphKinds == {"plain", "cond"}

Steps(kind) == <<StepA, StepB(kind)>>

Connections == ("A" :> <<"B">>) @@ ("B" :> <<>>)

\* the inputs given to execute_workflow
Inputs == {("x" :> 3), <<>>}

\* what an agent's process_task returns when it does not raise
Results == {("out" :> 5), ("out" :> 4), <<>>}

\* the inputs and results of the runs of the graph kind "merge"
MergeInputs == {("x" :> 3), ("z" :> 1)}

MergeResults == {("out" :> 5), ("alt" :> 4), ("out" :> 5) @@ ("alt" :> 4), <<>>}

\* WorkflowState as constructed by create_workflow
WorkflowState ==
    [ status |-> "pending",
      current_step |-> None,
      completed_steps |-> <<>>,
      failed_steps |-> <<>>,
      context |-> <<>>,
      results |-> <<>>,
      started_at |-> NoTime,
      completed_at |-> NoTime,
      error |-> None ]

check_conditions_ignored(conditions, context) == TRUE

\* _check_conditions
check_conditions(conditions, context) ==
    \A key \in DOMAIN conditions :
        key \in DOMAIN context /\ context[key] = conditions[key]

prepare_input_keyed_by_context(input_mapping, context) ==
    [context_key \in {input_mapping[k] : k \in DOMAIN input_mapping} \cap DOMAIN context
        |-> context[context_key]]

\* _prepare_input
prepare_input(input_mapping, context) ==
    [output_key \in {k \in DOMAIN input_mapping : input_mapping[k] \in DOMAIN context}
        |-> context[input_mapping[output_key]]]

\* del d[k]
Delete(d, k) == [x \in DOMAIN d \ {k} |-> d[x]]

\* d[k] = v
Assign(d, k, v) == [x \in DOMAIN d \cup {k} |-> IF x = k THEN v ELSE d[x]]

RECURSIVE process_output_keyed_by_result(_, _)
process_output_keyed_by_result(output_mapping, result) ==
    IF output_mapping = <<>> THEN <<>>
    ELSE LET n == Len(output_mapping)
             output_data == process_output_keyed_by_result(SubSeq(output_mapping, 1, n - 1), result)
             result_key == output_mapping[n][1]
         IN IF result_key \in DOMAIN result
            THEN Assign(output_data, result_key, result[result_key])
            ELSE output_data

\* _process_output: the pairs of the mapping are visited in order, and each
\* one whose result key is present assigns output_data[context_key]
RECURSIVE process_output(_, _)
process_output(output_mapping, result) ==
    IF output_mapping = <<>> THEN <<>>
    ELSE LET n == Len(output_mapping)
             output_data == process_output(SubSeq(output_mapping, 1, n - 1), result)
             result_key == output_mapping[n][1]
             context_key == output_mapping[n][2]
         IN IF result_key \in DOMAIN result
            THEN Assign(output_data, context_key, result[result_key])
            ELSE output_data

\* dict.update
Update(d, e) ==
    [k \in DOMAIN d \cup DOMAIN e |-> IF k \in DOMAIN e THEN e[k] ELSE d[k]]

\* f"{agent_type}_{step_id}"
AgentId(agent_type, step_id) == agent_type \o "_" \o step_id

\* the execute_workflow calls in progress for workflow id w
ExecsOf(w) == {e \in execs : e.wf = w}

NextPositionEnd(graph, n) == [pc |-> "done", node |-> None]

\* compiled graph: the node that follows n, or END
NextPosition(graph, n) ==
    IF graph.edges[n] = <<>> THEN [pc |-> "done", node |-> None]
    ELSE [pc |-> "node", node |-> graph.edges[n][1]]

\* the inner task of e moves on from node n (the step function returned)
Advance(e, graph, n) ==
    LET nx == NextPosition(graph, n)
    IN [e EXCEPT !.pc = nx.pc, !.node = nx.node, !.obj = 0, !.payload = <<>>]

AgentNeverFound(agent_id) == FALSE

\* _get_or_create_agent's test `agent_id in self.agents`
AgentFound(agent_id) == agent_id \in DOMAIN agents

RetryAlways(step) == TRUE

\* `step.retry_count <= step.max_retries`: the step is tried again
RetryAllowed(step) == step.retry_count <= step.max_retries

\* step_function from its first line to its next suspension or its return,
\* entered by call e for node n in a program state whose workflow state is ws,
\* whose compiled graphs are wfs and whose agent instances are ob.
StepEnter(e, n, ws, wfs, ob) ==
    LET w == e.wf
        step == wfs[w].steps[n]
        ws1 == [ws EXCEPT !.current_step = n]
        agent_id == AgentId(step.agent_type, step.id)
        payload == prepare_input(step.input_mapping, ws1.context)
    IN /\ workflows' = wfs
       /\ IF ~check_conditions(step.conditions, ws1.context)
          THEN \* skipped: recorded as completed, the step function returns
               /\ workflow_states' = [workflow_states EXCEPT
                      ![w] = [ws1 EXCEPT !.completed_steps = Append(@, n)]]
               /\ execs' = (execs \ {e}) \cup {Advance(e, wfs[w], n)}
               /\ objs' = ob
               /\ UNCHANGED <<agents, hist>>
          ELSE IF AgentFound(agent_id)
          THEN \* _get_or_create_agent found the agent: await agent.process_task(task)
               /\ workflow_states' = [workflow_states EXCEPT ![w] = ws1]
               /\ execs' = (execs \ {e}) \cup
                      {[e EXCEPT !.pc = "call", !.node = n, !.obj = agents[agent_id],
                                 !.payload = payload]}
               /\ hist' = [hist EXCEPT ![w].attempts[n] = @ + 1, ![w].calls[n] = @ + 1]
               /\ objs' = ob
               /\ UNCHANGED agents
          ELSE \* create_agent: construct, register, await agent.start()
               LET o == Cardinality(DOMAIN ob) + 1
               IN /\ o <= MaxObjs
                  /\ workflow_states' = [workflow_states EXCEPT ![w] = ws1]
                  /\ agents' = agents @@ (agent_id :> o)
                  /\ objs' = ob @@ (o :> start_call(Construct(agent_id, <<>>, <<>>)))
                  /\ execs' = (execs \ {e}) \cup
                         {[e EXCEPT !.pc = "init", !.node = n, !.obj = o,
                                    !.payload = payload]}
                  /\ hist' = [hist EXCEPT ![w].attempts[n] = @ + 1]

StepExceptMovingOn(e, n, ob) ==
    LET w == e.wf
        wfs == [workflows EXCEPT ![w].steps[n].retry_count = @ + 1]
    IN /\ workflows' = wfs
       /\ workflow_states' =
              IF RetryAllowed(wfs[w].steps[n]) THEN workflow_states
              ELSE [workflow_states EXCEPT
                      ![w].failed_steps = Append(@, n),
                      ![w].status = "failed",
                      ![w].error = "step error"]
       /\ execs' = (execs \ {e}) \cup {Advance(e, wfs[w], n)}
       /\ objs' = ob
       /\ UNCHANGED <<agents, hist>>

\* step_function's `except Exception` branch, for call e at node n
StepExcept(e, n, ob) ==
    LET w == e.wf
        wfs == [workflows EXCEPT ![w].steps[n].retry_count = @ + 1]
    IN IF RetryAllowed(wfs[w].steps[n])
       THEN StepEnter(e, n, workflow_states[w], wfs, ob)
       ELSE /\ workflows' = wfs
            /\ workflow_states' = [workflow_states EXCEPT
                   ![w].failed_steps = Append(@, n),
                   ![w].status = "failed",
                   ![w].error = "step error"]
            /\ execs' = (execs \ {e}) \cup {Advance(e, wfs[w], n)}
            /\ objs' = ob
            /\ UNCHANGED <<agents, hist>>

create_workflow_overwriting(w, kind) ==
    /\ workflows' = [v \in DOMAIN workflows \cup {w} |->
            IF v = w
            THEN [ steps |-> [n \in {Steps(kind)[i].id : i \in 1..Len(Steps(kind))}
                                |-> CHOOSE st \in {Steps(kind)[i] : i \in 1..Len(Steps(kind))} : st.id = n],
                   edges |-> Connections,
                   entry |-> Steps(kind)[1].id ]
            ELSE workflows[v]]
    /\ workflow_states' = [v \in DOMAIN workflow_states \cup {w} |->
            IF v = w THEN WorkflowState ELSE workflow_states[v]]
    /\ hist' = [v \in DOMAIN hist \cup {w} |->
            IF v = w THEN [runs |-> 0,
                           input |-> <<>>,
                           attempts |-> [n \in DOMAIN Connections |-> 0],
                           calls |-> [n \in DOMAIN Connections |-> 0]]
            ELSE hist[v]]
    /\ outcome' = [op |-> "create_workflow", wf |-> w, result |-> "ok"]
    /\ UNCHANGED <<objs, agents, running_workflows, execs, calls, now>>

\* create_workflow(workflow_id, name, steps, connections)
create_workflow(w, kind) ==
    IF w \in DOMAIN workflows
    THEN /\ outcome' = [op |-> "create_workflow", wf |-> w, result |-> "Conflict"]
         /\ UNCHANGED <<objs, orchVars, now>>
    ELSE /\ workflows' = workflows @@
                (w :> [ steps |-> [n \in {Steps(kind)[i].id : i \in 1..Len(Steps(kind))}
                                     |-> CHOOSE st \in {Steps(kind)[i] : i \in 1..Len(Steps(kind))} : st.id = n],
                        edges |-> Connections,
                        entry |-> Steps(kind)[1].id ])
         /\ workflow_states' = workflow_states @@ (w :> WorkflowState)
         /\ hist' = hist @@ (w :> [runs |-> 0,
                                   input |-> <<>>,
                                   attempts |-> [n \in DOMAIN Connections |-> 0],
                                   calls |-> [n \in DOMAIN Connections |-> 0]])
         /\ outcome' = [op |-> "create_workflow", wf |-> w, result |-> "ok"]
         /\ UNCHANGED <<objs, agents, running_workflows, execs, calls, now>>

execute_workflow_keeping_lists(w, input_data) ==
    IF w \notin DOMAIN workflows
    THEN /\ outcome' = [op |-> "execute_workflow", wf |-> w, result |-> "NotFound"]
         /\ UNCHANGED <<objs, orchVars, now>>
    ELSE IF w \in DOMAIN running_workflows
    THEN /\ outcome' = [op |-> "execute_workflow", wf |-> w, result |-> "Conflict"]
         /\ UNCHANGED <<objs, orchVars, now>>
    ELSE /\ hist[w].runs < MaxRuns
         /\ workflow_states' = [workflow_states EXCEPT ![w] =
                [@ EXCEPT !.status = "running",
                          !.started_at = now,
                          !.context = input_data,
                          !.results = <<>>,
                          !.error = None]]
         /\ execs' = execs \cup
                {[wf |-> w, run |-> hist[w].runs + 1, pc |-> "node",
                  node |-> workflows[w].entry, obj |-> 0, payload |-> <<>>,
                  cancel |-> FALSE]}
         /\ running_workflows' = [k \in DOMAIN running_workflows \cup {w} |->
                IF k = w THEN hist[w].runs + 1 ELSE running_workflows[k]]
         /\ hist' = [hist EXCEPT ![w].runs = @ + 1,
                                  ![w].input = input_data,
                                  ![w].attempts = [n \in DOMAIN @ |-> 0],
                                  ![w].calls = [n \in DOMAIN @ |-> 0]]
         /\ UNCHANGED <<objs, agents, workflows, calls, outcome, now>>

RunNeverInFlight(w) == FALSE

\* execute_workflow's second guard: a run of this workflow id is in flight
RunInFlight(w) == w \in DOMAIN running_workflows

\* execute_workflow(workflow_id, input_data) up to `await task`
execute_workflow(w, input_data) ==
    IF w \notin DOMAIN workflows
    THEN /\ outcome' = [op |-> "execute_workflow", wf |-> w, result |-> "NotFound"]
         /\ UNCHANGED <<objs, orchVars, now>>
    ELSE IF RunInFlight(w)
    THEN /\ outcome' = [op |-> "execute_workflow", wf |-> w, result |-> "Conflict"]
         /\ UNCHANGED <<objs, orchVars, now>>
    ELSE /\ hist[w].runs < MaxRuns
         /\ workflow_states' = [workflow_states EXCEPT ![w] =
                [@ EXCEPT !.status = "running",
                          !.started_at = now,
                          !.context = input_data,
                          !.results = <<>>,
                          !.completed_steps = <<>>,
                          !.failed_steps = <<>>,
                          !.error = None]]
         /\ execs' = execs \cup
                {[wf |-> w, run |-> hist[w].runs + 1, pc |-> "node",
                  node |-> workflows[w].entry, obj |-> 0, payload |-> <<>>,
                  cancel |-> FALSE]}
         /\ running_workflows' = [k \in DOMAIN running_workflows \cup {w} |->
                IF k = w THEN hist[w].runs + 1 ELSE running_workflows[k]]
         /\ hist' = [hist EXCEPT ![w].runs = @ + 1,
                                  ![w].input = input_data,
                                  ![w].attempts = [n \in DOMAIN @ |-> 0],
                                  ![w].calls = [n \in DOMAIN @ |-> 0]]
         /\ UNCHANGED <<objs, agents, workflows, calls, outcome, now>>

\* the inner task runs the step function of its next node
NodeStart(e) ==
    /\ e.pc = "node"
    /\ ~e.cancel
    /\ StepEnter(e, e.node, workflow_states[e.wf], workflows, objs)
    /\ UNCHANGED <<running_workflows, calls, outcome, now>>

\* initialize() of the agent a step is creating returns (ok) or raises
InitDone(e, ok) ==
    /\ e.pc = "init"
    /\ ~e.cancel
    /\ LET ob == [objs EXCEPT ![e.obj] = start_done(@, ok)]
       IN IF ok
          THEN \* create_agent returns the agent: await agent.process_task(task)
               /\ objs' = ob
               /\ execs' = (execs \ {e}) \cup {[e EXCEPT !.pc = "call"]}
               /\ hist' = [hist EXCEPT ![e.wf].calls[e.node] = @ + 1]
               /\ UNCHANGED <<agents, workflows, workflow_states>>
          ELSE StepExcept(e, e.node, ob)
    /\ UNCHANGED <<running_workflows, calls, outcome, now>>

CallReturnWritingAll(e, result) ==
    /\ e.pc = "call"
    /\ ~e.cancel
    /\ LET w == e.wf
           n == e.node
           step == workflows[w].steps[n]
           output_data == process_output(step.output_mapping, result)
       IN /\ workflow_states' = [v \in DOMAIN workflow_states |->
                 IF v = w
                 THEN [workflow_states[v] EXCEPT
                         !.context = Update(@, output_data),
                         !.results = Update(@, (n :> result)),
                         !.completed_steps = Append(@, n)]
                 ELSE [workflow_states[v] EXCEPT !.context = Update(@, output_data)]]
          /\ execs' = (execs \ {e}) \cup {Advance(e, workflows[w], n)}
    /\ UNCHANGED <<objs, agents, workflows, running_workflows, calls, hist, outcome, now>>

CallReturnCounted(e, result) ==
    /\ e.pc = "call"
    /\ ~e.cancel
    /\ LET w == e.wf
           n == e.node
           step == workflows[w].steps[n]
           output_data == process_output(step.output_mapping, result)
       IN /\ workflow_states' = [workflow_states EXCEPT
                 ![w].context = Update(@, output_data),
                 ![w].results = Update(@, (n :> result)),
                 ![w].completed_steps = Append(@, n)]
          /\ execs' = (execs \ {e}) \cup {Advance(e, workflows[w], n)}
          /\ objs' = [objs EXCEPT ![e.obj] = update_metrics(@, TRUE)]
    /\ UNCHANGED <<agents, workflows, running_workflows, calls, hist, outcome, now>>

\* the process_task a step awaits returns result
CallReturn(e, result) ==
    /\ e.pc = "call"
    /\ ~e.cancel
    /\ LET w == e.wf
           n == e.node
           step == workflows[w].steps[n]
           output_data == process_output(step.output_mapping, result)
       IN /\ workflow_states' = [workflow_states EXCEPT
                 ![w].context = Update(@, output_data),
                 ![w].results = Update(@, (n :> result)),
                 ![w].completed_steps = Append(@, n)]
          /\ execs' = (execs \ {e}) \cup {Advance(e, workflows[w], n)}
    /\ UNCHANGED <<objs, agents, workflows, running_workflows, calls, hist, outcome, now>>

\* the process_task a step awaits raises
CallRaise(e) ==
    /\ e.pc = "call"
    /\ ~e.cancel
    /\ StepExcept(e, e.node, objs)
    /\ UNCHANGED <<running_workflows, calls, outcome, now>>

cancel_workflow_unstamped(w) ==
    IF w \notin DOMAIN running_workflows
    THEN /\ outcome' = [op |-> "cancel_workflow", wf |-> w, result |-> "not running"]
         /\ UNCHANGED <<objs, orchVars, now>>
    ELSE /\ execs' = {IF e.wf = w /\ e.run = running_workflows[w] /\ e.pc \notin {"done", "cancelled"}
                      THEN [e EXCEPT !.cancel = TRUE] ELSE e : e \in execs}
         /\ workflow_states' = [workflow_states EXCEPT ![w].status = "cancelled"]
         /\ outcome' = [op |-> "cancel_workflow", wf |-> w, result |-> "ok"]
         /\ UNCHANGED <<objs, agents, workflows, running_workflows, calls, hist, now>>

cancel_workflow_any_state(w) ==
    IF w \notin DOMAIN workflow_states
    THEN /\ outcome' = [op |-> "cancel_workflow", wf |-> w, result |-> "not running"]
         /\ UNCHANGED <<objs, orchVars, now>>
    ELSE /\ execs' = {IF e.wf = w /\ e.pc \notin {"done", "cancelled"}
                      THEN [e EXCEPT !.cancel = TRUE] ELSE e : e \in execs}
         /\ workflow_states' = [workflow_states EXCEPT
                ![w].status = "cancelled",
                ![w].completed_at = now]
         /\ outcome' = [op |-> "cancel_workflow", wf |-> w,
                        result |-> IF w \in DOMAIN running_workflows THEN "ok" ELSE "not running"]
         /\ UNCHANGED <<objs, agents, workflows, running_workflows, calls, hist, now>>

cancel_workflow_resetting(w) ==
    IF w \notin DOMAIN running_workflows
    THEN /\ outcome' = [op |-> "cancel_workflow", wf |-> w, result |-> "not running"]
         /\ UNCHANGED <<objs, orchVars, now>>
    ELSE /\ execs' = {IF e.wf = w /\ e.run = running_workflows[w] /\ e.pc \notin {"done", "cancelled"}
                      THEN [e EXCEPT !.cancel = TRUE] ELSE e : e \in execs}
         /\ workflow_states' = [workflow_states EXCEPT
                ![w].status = "cancelled",
                ![w].completed_at = now,
                ![w].current_step = None,
                ![w].error = "cancelled"]
         /\ outcome' = [op |-> "cancel_workflow", wf |-> w, result |-> "ok"]
         /\ UNCHANGED <<objs, agents, workflows, running_workflows, calls, hist, now>>

\* cancel_workflow(workflow_id)
cancel_workflow(w) ==
    IF w \notin DOMAIN running_workflows
    THEN /\ outcome' = [op |-> "cancel_workflow", wf |-> w, result |-> "not running"]
         /\ UNCHANGED <<objs, orchVars, now>>
    ELSE /\ execs' = {IF e.wf = w /\ e.run = running_workflows[w] /\ e.pc \notin {"done", "cancelled"}
                      THEN [e EXCEPT !.cancel = TRUE] ELSE e : e \in execs}
         /\ workflow_states' = [workflow_states EXCEPT
                ![w].status = "cancelled",
                ![w].completed_at = now]
         /\ outcome' = [op |-> "cancel_workflow", wf |-> w, result |-> "ok"]
         /\ UNCHANGED <<objs, agents, workflows, running_workflows, calls, hist, now>>

\* the cancelled inner task is resumed: CancelledError is raised at its
\* suspension point and leaves step_function (it is no Exception)
CancelDelivered(e) ==
    /\ e.cancel
    /\ e.pc \in {"node", "init", "call"}
    /\ execs' = (execs \ {e}) \cup {[e EXCEPT !.pc = "cancelled", !.obj = 0, !.payload = <<>>]}
    /\ objs' = IF e.pc = "init" THEN [objs EXCEPT ![e.obj].starting = @ - 1] ELSE objs
    /\ UNCHANGED <<agents, workflows, workflow_states, running_workflows, calls, hist, outcome, now>>

ExecuteResumeWithoutFinally(e) ==
    /\ e.pc \in {"done", "cancelled"}
    /\ execs' = execs \ {e}
    /\ IF e.pc = "done"
       THEN /\ workflow_states' = [workflow_states EXCEPT
                   ![e.wf].status = "completed",
                   ![e.wf].completed_at = now]
            /\ running_workflows' = [k \in DOMAIN running_workflows \ {e.wf} |-> running_workflows[k]]
            /\ outcome' = [op |-> "execute_workflow", wf |-> e.wf, result |-> "returned"]
       ELSE /\ outcome' = [op |-> "execute_workflow", wf |-> e.wf, result |-> "CancelledError"]
            /\ UNCHANGED <<workflow_states, running_workflows>>
    /\ UNCHANGED <<objs, agents, workflows, calls, hist, now>>

\* execute_workflow after `await task`
ExecuteResume(e) ==
    /\ e.pc \in {"done", "cancelled"}
    /\ execs' = execs \ {e}
    /\ running_workflows' = [k \in DOMAIN running_workflows \ {e.wf} |-> running_workflows[k]]
    /\ IF e.pc = "done"
       THEN /\ workflow_states' = [workflow_states EXCEPT
                   ![e.wf].status = "completed",
                   ![e.wf].completed_at = now]
            /\ outcome' = [op |-> "execute_workflow", wf |-> e.wf, result |-> "returned"]
       ELSE /\ outcome' = [op |-> "execute_workflow", wf |-> e.wf, result |-> "CancelledError"]
            /\ UNCHANGED workflow_states
    /\ UNCHANGED <<objs, agents, workflows, calls, hist, now>>

\* datetime.now() advances
Tick ==
    /\ now < MaxTime
    /\ now' = now + 1
    /\ UNCHANGED <<objs, orchVars, outcome>>

----------------------------------------------------------------------------
(* agent_orchestrator.py: the agent registry and shutdown *)

\* AgentOrchestrator.agent_types after startup
AgentTypes == {AgentType}

\* the agent types callers ask for: the registered one and one that is not
RequestedTypes == AgentTypes \cup {"unknown"}

\* the agent ids given to create_agent and remove_agent by callers
AgentIds == {"a1"}

\* the capabilities and config callers give to create_agent
CallerCapabilities == <<"planning">>

CallerConfig == ("region" :> "eu")

AgentNeverRegistered(agent_id) == FALSE

\* create_agent's second guard: `agent_id in self.agents`
AgentRegistered(agent_id) == agent_id \in DOMAIN agents

\* create_agent(agent_id, agent_type, ...) up to `await self.initialize()` in agent.start()
create_agent(agent_id, agent_type) ==
    IF agent_type \notin AgentTypes
    THEN /\ outcome' = [op |-> "create_agent", id |-> agent_id, result |-> "NotFound"]
         /\ UNCHANGED <<objs, orchVars, now>>
    ELSE IF AgentRegistered(agent_id)
    THEN /\ outcome' = [op |-> "create_agent", id |-> agent_id, result |-> "Conflict"]
         /\ UNCHANGED <<objs, orchVars, now>>
    ELSE LET o == Cardinality(DOMAIN objs) + 1
         IN /\ o <= MaxObjs
            /\ agents' = Assign(agents, agent_id, o)
            /\ objs' = objs @@ (o :> start_call(Construct(agent_id, CallerCapabilities, CallerConfig)))
            /\ calls' = calls \cup {[op |-> "create_agent", id |-> agent_id, obj |-> o]}
            /\ UNCHANGED <<workflows, workflow_states, running_workflows, execs, hist, outcome, now>>

\* create_agent after agent.start() returned (ok) or raised
CreateDone(c, ok) ==
    /\ c.op = "create_agent"
    /\ objs' = [objs EXCEPT ![c.obj] = start_done(@, ok)]
    /\ calls' = calls \ {c}
    /\ outcome' = [op |-> "create_agent", id |-> c.id,
                   result |-> IF ok THEN "ok" ELSE "InitError"]
    /\ UNCHANGED <<agents, workflows, workflow_states, running_workflows, execs, hist, now>>

remove_agent_raising(agent_id) ==
    IF agent_id \notin DOMAIN agents
    THEN /\ outcome' = [op |-> "remove_agent", id |-> agent_id, result |-> "KeyError"]
         /\ UNCHANGED <<objs, orchVars, now>>
    ELSE LET o == agents[agent_id]
         IN IF ~objs[o].is_running
            THEN /\ agents' = Delete(agents, agent_id)
                 /\ outcome' = [op |-> "remove_agent", id |-> agent_id, result |-> "ok"]
                 /\ UNCHANGED <<objs, workflows, workflow_states, running_workflows,
                                execs, calls, hist, now>>
            ELSE /\ objs' = [objs EXCEPT ![o] = stop_call(@)]
                 /\ calls' = calls \cup {[op |-> "remove_agent", id |-> agent_id, obj |-> o]}
                 /\ UNCHANGED <<agents, workflows, workflow_states, running_workflows,
                                execs, hist, outcome, now>>

\* remove_agent(agent_id) up to `await self.cleanup()` in agent.stop(), or to
\* its return when stop() finds the agent not running
remove_agent(agent_id) ==
    IF agent_id \notin DOMAIN agents
    THEN /\ outcome' = [op |-> "remove_agent", id |-> agent_id, result |-> "not registered"]
         /\ UNCHANGED <<objs, orchVars, now>>
    ELSE LET o == agents[agent_id]
         IN IF ~objs[o].is_running
            THEN /\ agents' = Delete(agents, agent_id)
                 /\ outcome' = [op |-> "remove_agent", id |-> agent_id, result |-> "ok"]
                 /\ UNCHANGED <<objs, workflows, workflow_states, running_workflows,
                                execs, calls, hist, now>>
            ELSE /\ objs' = [objs EXCEPT ![o] = stop_call(@)]
                 /\ calls' = calls \cup {[op |-> "remove_agent", id |-> agent_id, obj |-> o]}
                 /\ UNCHANGED <<agents, workflows, workflow_states, running_workflows,
                                execs, hist, outcome, now>>

\* remove_agent after agent.stop() returned (ok) or raised; `del` of an id
\* that is gone raises KeyError
RemoveDone(c, ok) ==
    /\ c.op = "remove_agent"
    /\ objs' = [objs EXCEPT ![c.obj] = stop_done(@, ok)]
    /\ calls' = calls \ {c}
    /\ IF ~ok
       THEN /\ outcome' = [op |-> "remove_agent", id |-> c.id, result |-> "CleanupError"]
            /\ UNCHANGED agents
       ELSE IF c.id \notin DOMAIN agents
       THEN /\ outcome' = [op |-> "remove_agent", id |-> c.id, result |-> "KeyError"]
            /\ UNCHANGED agents
       ELSE /\ outcome' = [op |-> "remove_agent", id |-> c.id, result |-> "ok"]
            /\ agents' = Delete(agents, c.id)
    /\ UNCHANGED <<workflows, workflow_states, running_workflows, execs, hist, now>>

\* list(self.agents.keys()): the ids in insertion order, which is the order
\* in which their agents were constructed
RECURSIVE KeysInOrder(_)
KeysInOrder(ags) ==
    IF DOMAIN ags = {} THEN <<>>
    ELSE LET first == CHOOSE a \in DOMAIN ags : \A b \in DOMAIN ags : ags[a] <= ags[b]
         IN <<first>> \o KeysInOrder(Delete(ags, first))

\* shutdown's `for agent_id in ...: await self.remove_agent(agent_id)` over
\* the ids still pending, on registry ags and agent objects ob, up to its
\* next suspension (in the cleanup() of agent `id`) or to its end
RECURSIVE RemoveAgents(_, _, _)
RemoveAgents(pending, ags, ob) ==
    IF pending = <<>>
    THEN [suspended |-> FALSE, agents |-> ags, objs |-> ob, id |-> None, obj |-> 0,
          pending |-> <<>>]
    ELSE LET agent_id == Head(pending)
         IN IF agent_id \notin DOMAIN ags
            THEN RemoveAgents(Tail(pending), ags, ob)
            ELSE IF ~ob[ags[agent_id]].is_running
            THEN RemoveAgents(Tail(pending), Delete(ags, agent_id), ob)
            ELSE [suspended |-> TRUE, agents |-> ags,
                  objs |-> [ob EXCEPT ![ags[agent_id]] = stop_call(@)],
                  id |-> agent_id, obj |-> ags[agent_id], pending |-> Tail(pending)]

\* shutdown's `for workflow_id in ...: await self.cancel_workflow(workflow_id)`
CancelRunning(ws) ==
    [w \in DOMAIN ws |->
        IF w \in DOMAIN running_workflows
        THEN [ws[w] EXCEPT !.status = "cancelled", !.completed_at = now]
        ELSE ws[w]]

\* what a shutdown call found when it was made: the runs in flight, the agent
\* objects registered, and the number of runs accepted so far per workflow
Found ==
    [ inflight |-> running_workflows,
      registered |-> {agents[a] : a \in DOMAIN agents},
      runs |-> [w \in DOMAIN hist |-> hist[w].runs] ]

\* how a shutdown call ended, with what it had found
ShutdownOutcome(result, found) ==
    [op |-> "shutdown", result |-> result, found |-> found]

\* shutdown() up to its first suspension or to its return
shutdown ==
    LET inflight == DOMAIN running_workflows
        r == RemoveAgents(KeysInOrder(agents), agents, objs)
    IN /\ execs' = {IF e.wf \in inflight /\ e.run = running_workflows[e.wf]
                         /\ e.pc \notin {"done", "cancelled"}
                    THEN [e EXCEPT !.cancel = TRUE] ELSE e : e \in execs}
       /\ workflow_states' = CancelRunning(workflow_states)
       /\ agents' = r.agents
       /\ objs' = r.objs
       /\ IF r.suspended
          THEN /\ calls' = calls \cup {[op |-> "shutdown", id |-> r.id, obj |-> r.obj,
                                        pending |-> r.pending, found |-> Found]}
               /\ UNCHANGED outcome
          ELSE /\ outcome' = ShutdownOutcome("returned", Found)
               /\ UNCHANGED calls
       /\ UNCHANGED <<workflows, running_workflows, hist, now>>

\* shutdown after the agent.stop() it awaits returned (ok) or raised
ShutdownResume(c, ok) ==
    /\ c.op = "shutdown"
    /\ LET ob == [objs EXCEPT ![c.obj] = stop_done(@, ok)]
       IN IF ~ok
          THEN /\ outcome' = ShutdownOutcome("CleanupError", c.found)
               /\ objs' = ob
               /\ calls' = calls \ {c}
               /\ UNCHANGED agents
          ELSE IF c.id \notin DOMAIN agents
          THEN /\ outcome' = ShutdownOutcome("KeyError", c.found)
               /\ objs' = ob
               /\ calls' = calls \ {c}
               /\ UNCHANGED agents
          ELSE LET r == RemoveAgents(c.pending, Delete(agents, c.id), ob)
               IN /\ agents' = r.agents
                  /\ objs' = r.objs
                  /\ IF r.suspended
                     THEN /\ calls' = (calls \ {c}) \cup
                                 {[c EXCEPT !.id = r.id, !.obj = r.obj, !.pending = r.pending]}
                          /\ UNCHANGED outcome
                     ELSE /\ calls' = calls \ {c}
                          /\ outcome' = ShutdownOutcome("returned", c.found)
    /\ UNCHANGED <<workflows, workflow_states, running_workflows, execs, hist, now>>

----------------------------------------------------------------------------
(* agent_orchestrator.py: the summaries *)

\* BaseAgent.get_status
get_status(ag) ==
    [ agent_id |-> ag.agent_id,
      status |-> ag.status,
      capabilities |-> ag.capabilities,
      is_running |-> ag.is_running,
      current_task |-> ag.current_task,
      queue_size |-> Len(ag.task_queue),
      metrics |-> [tasks_completed |-> ag.tasks_completed,
                   tasks_failed |-> ag.tasks_failed,
                   success_rate |-> ag.success_rate] ]

get_agent_status_summary_of_all_instances ==
    LET details == [a \in DOMAIN agents |-> get_status(objs[agents[a]])]
        Count(status) == Cardinality({o \in Objects : get_status(objs[o]).status = status})
    IN [ total_agents |-> Cardinality(DOMAIN agents),
         running_agents |-> Count("running"),
         idle_agents |-> Count("idle"),
         failed_agents |-> Count("failed"),
         agent_details |-> details ]

\* what get_agent_status_summary() returns; agent_details is kept by agent id
get_agent_status_summary ==
    LET details == [a \in DOMAIN agents |-> get_status(objs[agents[a]])]
        Count(status) == Cardinality({a \in DOMAIN agents : details[a].status = status})
    IN [ total_agents |-> Cardinality(DOMAIN agents),
         running_agents |-> Count("running"),
         idle_agents |-> Count("idle"),
         failed_agents |-> Count("failed"),
         agent_details |-> details ]

\* what get_workflow_summary() returns; workflow_details is kept by workflow id
get_workflow_summary ==
    [ total_workflows |-> Cardinality(DOMAIN workflows),
      running_workflows |-> Cardinality(DOMAIN running_workflows),
      workflow_details |->
          [w \in DOMAIN workflow_states |->
              [ status |-> workflow_states[w].status,
                current_step |-> workflow_states[w].current_step,
                completed_steps |-> Len(workflow_states[w].completed_steps),
                failed_steps |-> Len(workflow_states[w].failed_steps),
                started_at |-> workflow_states[w].started_at,
                completed_at |-> workflow_states[w].completed_at ]] ]

\* a call of get_agent_status_summary(): agent.get_status() never suspends,
\* so the call runs from its first line to its return
GetAgentStatusSummary ==
    /\ outcome' = [op |-> "get_agent_status_summary", result |-> "returned"]
    /\ UNCHANGED <<objs, orchVars, now>>

\* a call of get_workflow_summary()
GetWorkflowSummary ==
    /\ outcome' = [op |-> "get_workflow_summary", result |-> "returned"]
    /\ UNCHANGED <<objs, orchVars, now>>

----------------------------------------------------------------------------
(* The orchestrator *)

Init ==
    /\ objs = <<>>
    /\ InitOrch

\* the calls and resumptions that drive workflows W, compiled from the graph
\* kinds K, run on the inputs I, with capabilities returning the results R and
\* initialize() ending as in S (TRUE: returns, FALSE: raises)
RunNext(W, K, I, R, S) ==
    \/ \E w \in W, kind \in K : create_workflow(w, kind)
    \/ \E w \in W, input_data \in I : execute_workflow(w, input_data)
    \/ \E e \in execs : NodeStart(e)
    \/ \E e \in execs, ok \in S : InitDone(e, ok)
    \/ \E e \in execs, result \in R : CallReturn(e, result)
    \/ \E e \in execs : CallRaise(e)
    \/ \E e \in execs : ExecuteResume(e)

CancelNext(W) ==
    \/ \E w \in W : cancel_workflow(w)
    \/ \E e \in execs : CancelDelivered(e)

\* one workflow id, every graph kind, input and result, and cancellation;
\* the clock stands still
Next ==
    \/ RunNext({"w1"}, GraphKinds, Inputs, Results, BOOLEAN)
    \/ CancelNext({"w1"})

Spec == Init /\ [][Next]_vars

\* one workflow id with one graph, input and result, cancellation, and a
\* clock that advances
NextClock ==
    \/ RunNext({"w1"}, {"plain"}, {("x" :> 3)}, {("out" :> 5)}, BOOLEAN)
    \/ CancelNext({"w1"})
    \/ Tick

SpecClock == Init /\ [][NextClock]_vars

\* two workflow ids compiled from the same steps, so that their steps resolve
\* to the same agents
NextShared ==
    RunNext(WorkflowIds, {"plain"}, {("x" :> 3)}, {("out" :> 5)}, {TRUE})

SpecShared == Init /\ [][NextShared]_vars

\* two workflow ids compiled from the same steps and run on different inputs
\* (w1 with x, w2 without), with capabilities that return the one result or raise
NextPair ==
    \/ \E w \in WorkflowIds : create_workflow(w, "plain")
    \/ execute_workflow("w1", ("x" :> 3))
    \/ execute_workflow("w2", <<>>)
    \/ \E e \in execs : NodeStart(e)
    \/ \E e \in execs : InitDone(e, TRUE)
    \/ \E e \in execs : CallReturn(e, ("out" :> 5))
    \/ \E e \in execs : CallRaise(e)
    \/ \E e \in execs : ExecuteResume(e)

SpecPair == Init /\ [][NextPair]_vars

\* the calls and resumptions of the agent registry, for the ids A and the types T
RegistryNext(A, T) ==
    \/ \E agent_id \in A, agent_type \in T : create_agent(agent_id, agent_type)
    \/ \E c \in calls, ok \in BOOLEAN : CreateDone(c, ok)
    \/ \E agent_id \in A \cup DOMAIN agents : remove_agent(agent_id)
    \/ \E c \in calls, ok \in BOOLEAN : RemoveDone(c, ok)
    \/ \E o \in Objects : LoopWake(o)

ShutdownNext ==
    \/ shutdown
    \/ \E c \in calls, ok \in BOOLEAN : ShutdownResume(c, ok)

\* callers that create and remove agents, next to runs of the one compiled
\* workflow w1 whose steps succeed and to execute_workflow calls for w1 and
\* for the uncompiled id w2
NextRegistry ==
    \/ create_workflow("w1", "plain")
    \/ \E w \in WorkflowIds : execute_workflow(w, ("x" :> 3))
    \/ \E e \in execs : NodeStart(e)
    \/ \E e \in execs : InitDone(e, TRUE)
    \/ \E e \in execs : CallReturn(e, ("out" :> 5))
    \/ \E e \in execs : ExecuteResume(e)
    \/ RegistryNext(AgentIds, RequestedTypes)

SpecRegistry == Init /\ [][NextRegistry]_vars

\* one workflow id with one graph, input and result, next to callers that
\* shut the orchestrator down
NextShutdown ==
    \/ RunNext({"w1"}, {"plain"}, {("x" :> 3)}, {("out" :> 5)}, BOOLEAN)
    \/ \E e \in execs : CancelDelivered(e)
    \/ \E o \in Objects : LoopWake(o)
    \/ ShutdownNext

SpecShutdown == Init /\ [][NextShutdown]_vars

\* one workflow id compiled from the graph kind "merge" and run on inputs with
\* and without the context keys its steps read, with capabilities that return
\* any subset of the result fields its steps map, or raise
NextMapping ==
    \/ create_workflow("w1", "merge")
    \/ \E input_data \in MergeInputs : execute_workflow("w1", input_data)
    \/ \E e \in execs : NodeStart(e)
    \/ \E e \in execs : InitDone(e, TRUE)
    \/ \E e \in execs, result \in MergeResults : CallReturn(e, result)
    \/ \E e \in execs : CallRaise(e)
    \/ \E e \in execs : ExecuteResume(e)

SpecMapping == Init /\ [][NextMapping]_vars

\* one workflow id with one graph, input and result, whose agents may fail
\* to start (the step is then tried again), next to callers that remove the
\* agents the steps created
NextReuse ==
    \/ create_workflow("w1", "plain")
    \/ execute_workflow("w1", ("x" :> 3))
    \/ \E e \in execs : NodeStart(e)
    \/ \E e \in execs, ok \in BOOLEAN : InitDone(e, ok)
    \/ \E e \in execs : CallReturn(e, ("out" :> 5))
    \/ \E e \in execs : ExecuteResume(e)
    \/ \E agent_id \in DOMAIN agents : remove_agent(agent_id)
    \/ \E c \in calls : RemoveDone(c, TRUE)

SpecReuse == Init /\ [][NextReuse]_vars

\* callers that create and remove agents and read the summaries, next to
\* runs of the one compiled workflow, whose steps succeed
NextSummary ==
    \/ create_workflow("w1", "plain")
    \/ execute_workflow("w1", ("x" :> 3))
    \/ \E e \in execs : NodeStart(e)
    \/ \E e \in execs : InitDone(e, TRUE)
    \/ \E e \in execs : CallReturn(e, ("out" :> 5))
    \/ \E e \in execs : ExecuteResume(e)
    \/ RegistryNext(AgentIds, AgentTypes)
    \/ GetAgentStatusSummary
    \/ GetWorkflowSummary

SpecSummary == Init /\ [][NextSummary]_vars

\* the add_task calls made so far on the agent instances O
RECURSIVE Arrivals(_)
Arrivals(O) ==
    IF O = {} THEN 0
    ELSE LET o == CHOOSE x \in O : TRUE
         IN objs[o].arrivals + Arrivals(O \ {o})

\* the tasks submitted so far, over all agents
Submitted == Arrivals(Objects)

\* callers submit up to MaxTasks tasks, of one priority, to the agents that
\* the steps of a workflow created, as long as it is the only compiled
\* workflow; the worker loops of these agents process them, and a task's
\* capability call returns or raises
SubmitNext ==
    \/ \E o \in Objects :
          /\ Cardinality(DOMAIN workflows) = 1
          /\ Submitted < MaxTasks
          /\ AddTask(o, 1)
    \/ \E o \in Objects : LoopWake(o)
    \/ \E o \in Objects, success \in BOOLEAN :
          \E task \in objs[o].processing : LoopTaskDone(o, task, success)

\* a step of the run of workflow id w: of its inner task or of its
\* execute_workflow call; a capability call of a step returns or raises
RunStep(w) ==
    \/ \E e \in ExecsOf(w) : NodeStart(e)
    \/ \E e \in ExecsOf(w) : InitDone(e, TRUE)
    \/ \E e \in ExecsOf(w) : CallReturn(e, ("out" :> 5))
    \/ \E e \in ExecsOf(w) : CallRaise(e)
    \/ \E e \in ExecsOf(w) : ExecuteResume(e)

\* one run of one workflow id, whose capabilities return or raise, next to
\* callers that submit tasks to the agents its steps created and to the worker
\* loops of these agents
NextDirect ==
    \/ create_workflow("w1", "plain")
    \/ "w1" \in DOMAIN hist /\ hist["w1"].runs = 0 /\ execute_workflow("w1", ("x" :> 3))
    \/ RunStep("w1")
    \/ SubmitNext

SpecDirect == Init /\ [][NextDirect]_vars

\* The behaviours are of two kinds.  In one, a single workflow is compiled and
\* run once while callers submit tasks to the agents of its steps.  In the
\* other, two workflow ids are compiled and run once each, their steps
\* resolving to the same two agents, and no task is submitted.
NextLive ==
    \/ \E w \in WorkflowIds :
          (workflows = <<>> \/ Submitted = 0) /\ create_workflow(w, "plain")
    \/ \E w \in WorkflowIds :
          w \in DOMAIN hist /\ hist[w].runs = 0 /\ execute_workflow(w, ("x" :> 3))
    \/ \E w \in WorkflowIds : RunStep(w)
    \/ SubmitNext

\* the event loop runs every task that is ready (a woken worker loop, the
\* inner task of a run, an execute_workflow call whose inner task is done),
\* and every capability call in progress returns or raises
Fairness ==
    /\ \A o \in 1..MaxObjs :
          /\ WF_vars(o \in Objects /\ LoopWake(o))
          /\ WF_vars(o \in Objects /\ \E success \in BOOLEAN :
                        \E task \in objs[o].processing : LoopTaskDone(o, task, success))
    /\ \A w \in WorkflowIds : WF_vars(RunStep(w))

SpecLive == Init /\ [][NextLive]_vars /\ Fairness

\* whatever the event loop and the agents do next in the run of workflow id
\* w: a step of its inner task or of its execute_workflow call, the start of
\* a step's agent ending either way, a capability call ending either way, the
\* delivery of a requested cancellation
RunProgress(w) ==
    \/ RunStep(w)
    \/ \E e \in ExecsOf(w) : InitDone(e, FALSE)
    \/ \E e \in ExecsOf(w) : CancelDelivered(e)

\* runs of one workflow id that callers may cancel at any time
NextEnds ==
    \/ create_workflow("w1", "plain")
    \/ execute_workflow("w1", ("x" :> 3))
    \/ RunProgress("w1")
    \/ cancel_workflow("w1")

\* the event loop runs the inner task and the call of a run whenever they are
\* ready, and every initialize() and capability call in progress returns or
\* raises
SpecEnds == Init /\ [][NextEnds]_vars /\ WF_vars(RunProgress("w1"))

----------------------------------------------------------------------------
(* Claims about one agent *)

Pos(seq, x) == CHOOSE i \in 1..Len(seq) : seq[i] = x

InSeq(seq, x) == \E i \in 1..Len(seq) : seq[i] = x

StartedBefore(ag, t1, t2) ==
    InSeq(ag.started, t2) =>
        /\ InSeq(ag.started, t1)
        /\ Pos(ag.started, t1) < Pos(ag.started, t2)

\* C7: each agent has at most one worker loop alive at any time, after any
\* sequence of start and stop calls.
C7_OneWorkerLoop ==
    \A o \in Objects : Loops(objs[o]) <= 1

\* C8: while the cleanup of a stopped agent runs, the agent's worker loop has
\* halted and no task of the agent is executing.
C8_LoopHaltedBeforeCleanup ==
    \A o \in Objects :
        objs[o].stopping > 0 => objs[o].waiting = 0 /\ objs[o].processing = {}

\* C9 as claimed: of two tasks with priorities p1 > p2, each submitted while
\* the agent was executing no task, the one with p1 starts executing first,
\* whatever the worker loop did between the two submissions.
C9_HigherPriorityStartsFirst ==
    \A o \in Objects :
        \A t1, t2 \in DOMAIN objs[o].tasks :
            LET ag == objs[o]
            IN (/\ ag.tasks[t1].idle
                /\ ag.tasks[t2].idle
                /\ ag.tasks[t1].priority > ag.tasks[t2].priority)
               => StartedBefore(ag, t1, t2)

\* C9 as amended: of two tasks with priorities p1 > p2, each submitted while
\* the agent was executing no task, and the second submitted before the worker
\* loop dequeued the first (both were pending together), the one with p1
\* starts executing first, in either submission order.
C9_HigherPriorityStartsFirstWhenPendingTogether ==
    \A o \in Objects :
        \A t1, t2 \in DOMAIN objs[o].tasks :
            LET ag == objs[o]
            IN (/\ ag.tasks[t1].idle
                /\ ag.tasks[t2].idle
                /\ {t1, t2} \in ag.together
                /\ ag.tasks[t1].priority > ag.tasks[t2].priority)
               => StartedBefore(ag, t1, t2)

\* the lower priority was submitted first, both were pending together, and
\* both have started
C9_Witness ==
    \E o \in Objects :
        \E t1, t2 \in DOMAIN objs[o].tasks :
            LET ag == objs[o]
            IN /\ ag.tasks[t1].idle
               /\ ag.tasks[t2].idle
               /\ {t1, t2} \in ag.together
               /\ ag.tasks[t1].priority > ag.tasks[t2].priority
               /\ t2 < t1
               /\ InSeq(ag.started, t1)
               /\ InSeq(ag.started, t2)

QueueOrdered(q) ==
    \A i, j \in 1..Len(q) :
        i < j => \/ q[i].priority > q[j].priority
                 \/ q[i].priority = q[j].priority /\ q[i].id < q[j].id

QueueIds(q) == {q[i].id : i \in 1..Len(q)}

\* a step in which a worker loop of o starts a task: it took the head
DequeuesHead(o) ==
    \A task \in objs'[o].processing \ objs[o].processing :
        /\ objs[o].task_queue # <<>>
        /\ task = Head(objs[o].task_queue)
        /\ objs'[o].task_queue = Tail(objs[o].task_queue)

\* a step in which add_task ran on o: the task joined the queue and nothing
\* else of the agent changed
AddTaskOnlyQueues(o) ==
    objs'[o].arrivals = objs[o].arrivals + 1 =>
        /\ QueueIds(objs'[o].task_queue) = QueueIds(objs[o].task_queue) \cup {objs'[o].arrivals}
        /\ Len(objs'[o].task_queue) = Len(objs[o].task_queue) + 1
        /\ objs'[o].is_running = objs[o].is_running
        /\ objs'[o].status = objs[o].status
        /\ objs'[o].current_task = objs[o].current_task
        /\ objs'[o].processing = objs[o].processing
        /\ objs'[o].waiting = objs[o].waiting
        /\ objs'[o].started = objs[o].started
        /\ objs'[o].tasks_completed = objs[o].tasks_completed
        /\ objs'[o].tasks_failed = objs[o].tasks_failed

\* C10: the pending queue is always ordered by non-increasing priority, ties
\* in arrival order; the worker loop dequeues its head; add_task changes
\* nothing but the queue.
C10_QueueOrderedHeadDequeued ==
    /\ [](\A o \in Objects : QueueOrdered(objs[o].task_queue))
    /\ [][\A o \in Objects \cap DOMAIN objs' : DequeuesHead(o) /\ AddTaskOnlyQueues(o)]_vars

\* the second task to arrive, of higher priority, was sorted ahead of the first
\* while both were pending, and the worker loop has dequeued it and left the first
C10_Witness ==
    \E o \in Objects :
        LET ag == objs[o]
        IN /\ {1, 2} \in ag.together
           /\ ag.tasks[2].priority > ag.tasks[1].priority
           /\ ag.started = <<2>>
           /\ QueueIds(ag.task_queue) = {1}

----------------------------------------------------------------------------
(* Claims about workflow runs *)

Returned(w) == [op |-> "execute_workflow", wf |-> w, result |-> "returned"]

\* C1: the run state execute_workflow returns after a step exhausted its retry
\* budget has status failed, the step in failed_steps and the error recorded;
\* a run state with status completed has an empty failed_steps list.
C1_ExhaustedStepFailsRun ==
    \A w \in DOMAIN workflow_states :
        LET ws == workflow_states[w]
        IN /\ ws.status = "completed" => ws.failed_steps = <<>>
           /\ (outcome = Returned(w) /\ ExecsOf(w) = {} /\ ws.failed_steps # <<>>)
                  => ws.status = "failed" /\ ws.error # None

\* C2: in the graph A -> B -> END, once A is recorded in failed_steps the
\* executor stops: B's step function is not entered and B's capability is not
\* invoked in that run.
C2_NoStepAfterExhaustion ==
    \A w \in DOMAIN workflow_states :
        InSeq(workflow_states[w].failed_steps, "A") =>
            /\ workflow_states[w].current_step = "A"
            /\ hist[w].attempts["B"] = 0
            /\ hist[w].calls["B"] = 0
            /\ ~InSeq(workflow_states[w].completed_steps, "B")

\* C3: in every run, a step recorded as failed whose every attempt reached
\* the capability (which failed) was attempted exactly max_retries + 1 times.
C3_ExactlyMaxRetriesPlusOneAttempts ==
    \A w \in DOMAIN workflow_states :
        \A n \in DOMAIN workflows[w].steps :
            (InSeq(workflow_states[w].failed_steps, n) /\ hist[w].calls[n] = hist[w].attempts[n])
                => hist[w].attempts[n] = workflows[w].steps[n].max_retries + 1

\* C4: at most one execute_workflow call per workflow id is in progress, and
\* an execute_workflow call for an id that is in running_workflows raises and
\* changes nothing of the orchestrator or its agents.
C4_OneRunInFlight ==
    /\ [](\A w \in WorkflowIds : Cardinality(ExecsOf(w)) <= 1)
    /\ [][\A w \in WorkflowIds :
            (w \in DOMAIN running_workflows /\ \E input_data \in Inputs : execute_workflow(w, input_data))
                => /\ outcome' = [op |-> "execute_workflow", wf |-> w, result |-> "Conflict"]
                   /\ UNCHANGED <<objs, orchVars, now>>]_vars

\* a call was rejected while the run it found in flight was awaiting a capability
C4_Witness ==
    \E e \in execs :
        /\ outcome = [op |-> "execute_workflow", wf |-> e.wf, result |-> "Conflict"]
        /\ e.pc = "call"
        /\ e.wf \in DOMAIN running_workflows

\* C5: cancel_workflow on a workflow with a run in flight sets, in that very
\* step, status cancelled and completed_at to a time not before started_at;
\* and a cancelled run state always carries such a completed_at.
C5_CancelStampsRun ==
    /\ [](\A w \in DOMAIN workflow_states :
            LET ws == workflow_states[w]
            IN ws.status = "cancelled" =>
                   /\ ws.started_at # NoTime
                   /\ ws.completed_at # NoTime
                   /\ ws.completed_at >= ws.started_at)
    /\ [][\A w \in WorkflowIds :
            (w \in DOMAIN running_workflows /\ cancel_workflow(w))
                => /\ workflow_states'[w].status = "cancelled"
                   /\ workflow_states'[w].completed_at = now
                   /\ workflow_states'[w].started_at # NoTime
                   /\ workflow_states'[w].completed_at >= workflow_states'[w].started_at]_vars

\* a run was cancelled while its second step awaited its capability, later
\* than it had started
C5_Witness ==
    \E e \in execs :
        /\ e.cancel
        /\ e.pc = "call"
        /\ e.node = "B"
        /\ workflow_states[e.wf].status = "cancelled"
        /\ workflow_states[e.wf].completed_at > workflow_states[e.wf].started_at

\* the process_task invocations in progress on agent instance o: by its worker
\* loops and by workflow steps
InvocationsInProgress(o) ==
    Cardinality(objs[o].processing) + Cardinality({e \in execs : e.pc = "call" /\ e.obj = o})

\* C6: at no time are two invocations of one agent's process_task in progress.
C6_OneInvocationPerAgent ==
    \A o \in Objects : InvocationsInProgress(o) <= 1

----------------------------------------------------------------------------
(* Claims about steps and run states *)

\* some declared key is absent from the context or differs from its expected value
ConditionUnmet(conditions, context) ==
    \E key \in DOMAIN conditions :
        key \notin DOMAIN context \/ context[key] # conditions[key]

\* the call whose inner task is about to enter the step function of a node
\* whose condition set the run context does not satisfy
AtUnmetStep(e) ==
    /\ e.pc = "node"
    /\ ~e.cancel
    /\ ConditionUnmet(workflows[e.wf].steps[e.node].conditions, workflow_states[e.wf].context)

\* C11: a visit of a step whose condition set is not satisfied by the run
\* context appends the step to completed_steps, resolves and creates no agent,
\* invokes no capability, and leaves context and results unchanged.
C11_UnmetConditionSkipsStep ==
    [][\A e \in execs :
          (AtUnmetStep(e) /\ NodeStart(e))
              => /\ workflow_states'[e.wf].completed_steps =
                        Append(workflow_states[e.wf].completed_steps, e.node)
                 /\ workflow_states'[e.wf].context = workflow_states[e.wf].context
                 /\ workflow_states'[e.wf].results = workflow_states[e.wf].results
                 /\ workflow_states'[e.wf].failed_steps = workflow_states[e.wf].failed_steps
                 /\ agents' = agents
                 /\ objs' = objs
                 /\ hist' = hist
                 /\ \A f \in execs' : f.pc \notin {"init", "call"}]_vars

\* step B was visited with its condition y = 5 unmet (A wrote y = 4) and is
\* recorded as completed without an attempt
C11_Witness ==
    \E w \in DOMAIN workflow_states :
        /\ InSeq(workflow_states[w].completed_steps, "B")
        /\ "y" \in DOMAIN workflow_states[w].context
        /\ workflow_states[w].context["y"] = 4
        /\ workflows[w].steps["B"].conditions # <<>>
        /\ hist[w].attempts["B"] = 0
        /\ "B" \notin DOMAIN workflow_states[w].results

\* the run state a successful create_workflow stores
FreshRunState(ws) ==
    /\ ws.status = "pending"
    /\ ws.context = <<>>
    /\ ws.completed_steps = <<>>
    /\ ws.failed_steps = <<>>
    /\ ws.error = None

\* C16: create_workflow with an id that already has a compiled graph raises
\* and leaves the stored graph and its run state unchanged; a successful
\* create_workflow stores the graph and a run state with status pending, empty
\* context, empty completed and failed lists and no error; every compiled
\* workflow id has exactly one run state.
C16_CreateWorkflowOnce ==
    /\ [](DOMAIN workflows = DOMAIN workflow_states)
    /\ [][\A w \in WorkflowIds, kind \in GraphKinds :
            create_workflow(w, kind) =>
                IF w \in DOMAIN workflows
                THEN /\ outcome' = [op |-> "create_workflow", wf |-> w, result |-> "Conflict"]
                     /\ workflows' = workflows
                     /\ workflow_states' = workflow_states
                     /\ UNCHANGED <<objs, agents, running_workflows, execs>>
                ELSE /\ outcome' = [op |-> "create_workflow", wf |-> w, result |-> "ok"]
                     /\ w \in DOMAIN workflows'
                     /\ FreshRunState(workflow_states'[w])
                     /\ \A v \in DOMAIN workflows :
                            workflows'[v] = workflows[v] /\ workflow_states'[v] = workflow_states[v]]_vars

\* a create_workflow for an id whose workflow has a run in flight, past its
\* first step, was rejected
C16_Witness ==
    \E w \in DOMAIN workflow_states :
        /\ outcome = [op |-> "create_workflow", wf |-> w, result |-> "Conflict"]
        /\ workflow_states[w].status = "running"
        /\ workflow_states[w].completed_steps # <<>>
        /\ w \in DOMAIN running_workflows

Terminal == {"completed", "failed", "cancelled"}

\* C17: a run state's status changes only along pending -> running,
\* running -> completed, running -> failed, running -> cancelled, and from a
\* terminal status to running when a new run starts.
C17_StatusTransitions ==
    [][\A w \in DOMAIN workflow_states :
          LET a == workflow_states[w].status
              b == workflow_states'[w].status
          IN \/ a = b
             \/ a = "pending" /\ b = "running"
             \/ a = "running" /\ b \in Terminal
             \/ a \in Terminal /\ b = "running" /\ hist'[w].runs = hist[w].runs + 1]_vars

\* the state an accepted execute_workflow call leaves for its steps
CleanSlate(ws, input_data) ==
    /\ ws.status = "running"
    /\ ws.context = input_data
    /\ ws.results = <<>>
    /\ ws.completed_steps = <<>>
    /\ ws.failed_steps = <<>>
    /\ ws.error = None

\* C18: an accepted execute_workflow call leaves the reused run state with
\* status running, context equal to the caller's input, empty results, empty
\* completed_steps and failed_steps and no error, and the state is so until
\* the first step of the run is entered.
C18_RunStartsFromCleanSlate ==
    /\ [](\A e \in execs :
            (e.pc = "node" /\ e.node = workflows[e.wf].entry /\ ~e.cancel)
                => \E input_data \in Inputs : CleanSlate(workflow_states[e.wf], input_data))
    /\ [][\A w \in WorkflowIds, input_data \in Inputs :
            (w \in DOMAIN workflows /\ w \notin DOMAIN running_workflows
                /\ execute_workflow(w, input_data))
                => /\ CleanSlate(workflow_states'[w], input_data)
                   /\ \E e \in execs' \ execs :
                          e.wf = w /\ e.pc = "node" /\ e.node = workflows[w].entry
                   /\ \A n \in DOMAIN hist'[w].attempts : hist'[w].attempts[n] = 0]_vars

\* a second run was accepted with an input that differs from the context the
\* first run left, after a first run that left a failed step and an error
C18_Witness ==
    \E e \in execs :
        /\ e.run = 2
        /\ e.pc = "node"
        /\ e.node = "A"
        /\ workflows[e.wf].steps["A"].retry_count > workflows[e.wf].steps["A"].max_retries
        /\ CleanSlate(workflow_states[e.wf], <<>>)
        /\ workflow_states[e.wf].current_step = "B"

----------------------------------------------------------------------------
(* Claims about the agent registry *)

\* C12: create_agent with a registered id or an unregistered type, and
\* execute_workflow with an uncompiled workflow id, each raise and leave the
\* agent registry, every agent's state, the compiled graphs, the run states
\* and the in-flight set unchanged.
C12_RejectedCallsMutateNothing ==
    [][/\ \A agent_id \in AgentIds, agent_type \in RequestedTypes :
            ((agent_type \notin AgentTypes \/ agent_id \in DOMAIN agents)
                /\ create_agent(agent_id, agent_type))
                => /\ outcome'.op = "create_agent"
                   /\ outcome'.result \in {"NotFound", "Conflict"}
                   /\ UNCHANGED <<objs, agents, workflows, workflow_states,
                                  running_workflows, execs, calls>>
       /\ \A w \in WorkflowIds, input_data \in Inputs :
            (w \notin DOMAIN workflows /\ execute_workflow(w, input_data))
                => /\ outcome' = [op |-> "execute_workflow", wf |-> w, result |-> "NotFound"]
                   /\ UNCHANGED <<objs, agents, workflows, workflow_states,
                                  running_workflows, execs, calls>>]_vars

\* a create_agent for the id of a running agent was rejected while a run of
\* another workflow was in flight and awaiting its own agent
C12_Witness ==
    /\ outcome = [op |-> "create_agent", id |-> "a1", result |-> "Conflict"]
    /\ "a1" \in DOMAIN agents
    /\ objs[agents["a1"]].is_running
    /\ \E e \in execs : e.pc = "call" /\ e.wf \in DOMAIN running_workflows

\* the create_agent call c ends in this step, having succeeded (ok) or not
CreateEnds(c, ok) ==
    /\ c \in calls
    /\ c.op = "create_agent"
    /\ CreateDone(c, ok)

\* C13: when a create_agent call ends, the id is in the registry if and only
\* if the call succeeded; the agent of a successful call is running with its
\* worker loop launched; a call whose agent failed to start leaves no agent
\* registered under the id.
C13_RegisteredIffCreated ==
    [][\A c \in calls :
          /\ CreateEnds(c, TRUE) =>
                /\ c.id \in DOMAIN agents'
                /\ agents'[c.id] = c.obj
                /\ objs'[c.obj].is_running
                /\ Loops(objs'[c.obj]) >= 1
          /\ CreateEnds(c, FALSE) => c.id \notin DOMAIN agents']_vars

\* C14: remove_agent with an id that is not registered raises nothing and
\* leaves the registry and every agent's state unchanged.
C14_RemoveUnknownIsNoOp ==
    [][\A agent_id \in AgentIds :
          (agent_id \notin DOMAIN agents /\ remove_agent(agent_id))
              => /\ outcome' = [op |-> "remove_agent", id |-> agent_id, result |-> "not registered"]
                 /\ UNCHANGED <<objs, agents, workflows, workflow_states,
                                running_workflows, execs, calls>>]_vars

\* a remove_agent for an id that had been registered and removed before
\* returned as a no-op, while another agent is registered and running
C14_Witness ==
    /\ outcome = [op |-> "remove_agent", id |-> "a1", result |-> "not registered"]
    /\ "a1" \notin DOMAIN agents
    /\ \E a \in DOMAIN agents : objs[agents[a]].is_running
    /\ \E o \in Objects : o \notin {agents[a] : a \in DOMAIN agents}

\* the remove_agent call for agent_id, found registered as object o, ends in this step
RemoveEnds(agent_id, o) ==
    \/ /\ agent_id \in DOMAIN agents
       /\ agents[agent_id] = o
       /\ ~objs[o].is_running
       /\ remove_agent(agent_id)
    \/ \E c \in calls, ok \in BOOLEAN :
          /\ c.op = "remove_agent"
          /\ c.id = agent_id
          /\ c.obj = o
          /\ RemoveDone(c, ok)

\* C15: a remove_agent call on a registered id ends with the id deregistered
\* and the agent not running, also when the agent's cleanup raises or the
\* agent was never started.
C15_RemoveAlwaysDeregisters ==
    [][\A agent_id \in AgentIds \cup DOMAIN agents, o \in Objects :
          RemoveEnds(agent_id, o)
              => /\ agent_id \notin DOMAIN agents'
                 /\ ~objs'[o].is_running]_vars

\* a shutdown call that had found `found` returns in this step
ShutdownReturns(found) ==
    \/ /\ found = Found
       /\ shutdown
       /\ calls' = calls
    \/ \E c \in calls :
          /\ c.op = "shutdown"
          /\ c.found = found
          /\ ShutdownResume(c, TRUE)
          /\ outcome' = ShutdownOutcome("returned", found)

\* no execute_workflow call has been accepted since `found` was taken
NoRunSince(found) ==
    /\ DOMAIN hist' = DOMAIN found.runs
    /\ \A w \in DOMAIN hist' : hist'[w].runs = found.runs[w]

\* a shutdown made in the state this step leads to would change nothing
NothingLeftToShutDown ==
    /\ agents' = <<>>
    /\ \A w \in DOMAIN running_workflows' :
          /\ workflow_states'[w].status = "cancelled"
          /\ workflow_states'[w].completed_at = now'
          /\ \A e \in execs' :
                (e.wf = w /\ e.run = running_workflows'[w])
                    => e.cancel \/ e.pc \in {"done", "cancelled"}

\* C20: while shutdown removes agents every run it found in flight has been
\* cancelled; when shutdown returns (no run having been accepted meanwhile)
\* the registry is empty, every agent it found registered is stopped and
\* every run it found in flight has status cancelled; a second shutdown would
\* change no state.
C20_ShutdownCancelsThenRemoves ==
    /\ [](\A c \in calls :
            c.op = "shutdown" =>
                \A e \in execs :
                    (e.wf \in DOMAIN c.found.inflight /\ e.run = c.found.inflight[e.wf])
                        => e.cancel \/ e.pc \in {"done", "cancelled"})
    /\ [][\A found \in {Found} \cup {c.found : c \in {d \in calls : d.op = "shutdown"}} :
            (ShutdownReturns(found) /\ NoRunSince(found))
                => /\ agents' = <<>>
                   /\ \A o \in found.registered : ~objs'[o].is_running
                   /\ \A w \in DOMAIN found.inflight : workflow_states'[w].status = "cancelled"
                   /\ NothingLeftToShutDown]_vars

----------------------------------------------------------------------------
(* Claims about concurrent runs *)

\* what the claim compares of a run state
RunView(ws) ==
    [ status |-> ws.status,
      context |-> ws.context,
      results |-> ws.results,
      completed_steps |-> ws.completed_steps,
      failed_steps |-> ws.failed_steps,
      error |-> ws.error ]

\* the run states in which a run executed alone can leave node n, entered
\* with run state ws: skipped, completed with one of the results R, or failed
AloneAfterStep(step, ws, R) ==
    IF ConditionUnmet(step.conditions, ws.context)
    THEN {[ws EXCEPT !.completed_steps = Append(@, step.id)]}
    ELSE {[ws EXCEPT !.context = Update(@, process_output(step.output_mapping, result)),
                     !.results = Update(@, (step.id :> result)),
                     !.completed_steps = Append(@, step.id)] : result \in R}
         \cup {[ws EXCEPT !.failed_steps = Append(@, step.id),
                          !.status = "failed",
                          !.error = "step error"]}

\* the run states a run executed alone can return, from node n on with run state ws
RECURSIVE AloneFrom(_, _, _, _)
AloneFrom(graph, n, ws, R) ==
    IF n = None
    THEN {[ws EXCEPT !.status = "completed"]}
    ELSE LET nx == IF graph.edges[n] = <<>> THEN None ELSE graph.edges[n][1]
         IN UNION {AloneFrom(graph, nx, s, R) : s \in AloneAfterStep(graph.steps[n], ws, R)}

\* the run states a run of graph on input_data, executed alone, can return
AloneFinals(graph, input_data, R) ==
    {RunView(s) : s \in AloneFrom(graph, graph.entry,
                                  [WorkflowState EXCEPT !.status = "running",
                                                        !.context = input_data], R)}

\* a step taken by the execute_workflow call e or by its inner task
StepOf(e) ==
    \/ NodeStart(e)
    \/ InitDone(e, TRUE)
    \/ CallReturn(e, ("out" :> 5))
    \/ CallRaise(e)
    \/ ExecuteResume(e)

----------------------------------------------------------------------------
(* Claims about failures *)

\* the execute_workflow call for w has ended and its run was not cancelled
EndedUncancelled(w) ==
    /\ outcome.op = "execute_workflow"
    /\ outcome.wf = w
    /\ outcome.result \in {"returned", "CancelledError"}
    /\ ExecsOf(w) = {}
    /\ workflow_states[w].status # "cancelled"

\* C21: an execute_workflow call whose run had a step fail (retries
\* exhausted) ends by returning, never by an exception, and the run state it
\* returns has status failed with the error message in its error field; a
\* task that failed in a worker loop carries the error in its error field.
C21_FailuresOnlyInErrorFields ==
    /\ \A w \in DOMAIN workflow_states :
          (EndedUncancelled(w) /\ workflow_states[w].failed_steps # <<>>)
              => /\ outcome.result = "returned"
                 /\ workflow_states[w].status = "failed"
                 /\ workflow_states[w].error # None
    /\ \A o \in Objects : \A t \in DOMAIN objs[o].tasks :
          objs[o].tasks[t].status = "failed" => objs[o].tasks[t].error # None

\* C22: a task submitted to an agent that is running reaches status completed
\* or failed, whatever tasks of that agent or of another agent failed before
\* it; and a run in flight ends, whatever steps of it or of the run of
\* another workflow failed.
C22_FailuresBlockNothing ==
    /\ \A o \in 1..MaxObjs, t \in 1..MaxTasks :
          (o \in Objects /\ t \in DOMAIN objs[o].tasks /\ objs[o].is_running)
              ~> (/\ o \in Objects
                  /\ t \in DOMAIN objs[o].tasks
                  /\ objs[o].tasks[t].status \in {"completed", "failed"})
    /\ \A w \in WorkflowIds :
          (w \in DOMAIN running_workflows) ~> (w \notin DOMAIN running_workflows)

\* the second task of a running agent completed after its first task had
\* failed, and a run with a failed step has ended
C22_Witness ==
    \E o \in Objects :
        /\ objs[o].is_running
        /\ objs[o].started = <<1, 2>>
        /\ objs[o].tasks[1].status = "failed"
        /\ objs[o].tasks[2].status = "completed"
        /\ \E w \in DOMAIN workflow_states :
              /\ workflow_states[w].failed_steps # <<>>
              /\ hist[w].runs = 1
              /\ w \notin DOMAIN running_workflows

----------------------------------------------------------------------------
(* Claims about the data flow of a run *)

\* the run of w was of the graph A -> B with B conditioned on y = 5, on the
\* input {x: 3}; A's capability returned {out: 5}, no step failed, and
\* execute_workflow has returned
ExampleRunReturned(w) ==
    /\ workflows[w].steps["B"].conditions = ("y" :> 5)
    /\ hist[w].input = ("x" :> 3)
    /\ outcome = Returned(w)
    /\ ExecsOf(w) = {}
    /\ "A" \in DOMAIN workflow_states[w].results
    /\ workflow_states[w].results["A"] = ("out" :> 5)
    /\ workflow_states[w].failed_steps = <<>>

\* C23: for the graph A -> B -> END where A maps context key x to input field
\* `in` and result field `out` to context key y, and B requires y = 5, a run
\* on input {x: 3} in which A's result is {out: 5} ends with status completed,
\* a context containing x = 3 and y = 5, and completed_steps = <<A, B>>.
C23_ExampleRunCompletes ==
    \A w \in DOMAIN workflow_states :
        ExampleRunReturned(w)
            => /\ workflow_states[w].status = "completed"
               /\ {"x", "y"} \subseteq DOMAIN workflow_states[w].context
               /\ workflow_states[w].context["x"] = 3
               /\ workflow_states[w].context["y"] = 5
               /\ workflow_states[w].completed_steps = <<"A", "B">>

\* such a run has returned, B's capability having been invoked with y's value
C23_Witness ==
    \E w \in DOMAIN workflow_states :
        /\ ExampleRunReturned(w)
        /\ hist[w].calls["B"] = 1
        /\ "B" \in DOMAIN workflow_states[w].results
        /\ workflow_states[w].completed_steps = <<"A", "B">>

----------------------------------------------------------------------------
(* Claims about cancellation and the summaries *)

\* C24: cancel_workflow never raises (it ends by returning, whether it found
\* a run in flight or not); for a workflow id without a run in flight (never
\* started, already finished, or unknown) it leaves every run state, status
\* and completed_at included, and everything else unchanged.
C24_CancelWithoutRunIsNoOp ==
    [][\A w \in WorkflowIds :
          cancel_workflow(w)
              => /\ outcome'.op = "cancel_workflow"
                 /\ outcome'.result \in {"ok", "not running"}
                 /\ w \notin DOMAIN running_workflows
                       => /\ outcome'.result = "not running"
                          /\ UNCHANGED <<objs, orchVars, now>>]_vars

\* a cancel_workflow call found the run of the workflow finished, at a later
\* time than the run had completed, and left its status and completed_at
C24_Witness ==
    \E w \in DOMAIN workflow_states :
        /\ outcome = [op |-> "cancel_workflow", wf |-> w, result |-> "not running"]
        /\ w \notin DOMAIN running_workflows
        /\ workflow_states[w].status = "completed"
        /\ workflow_states[w].completed_at # NoTime
        /\ workflow_states[w].completed_at < now

\* C25: get_agent_status_summary and get_workflow_summary change no state of
\* the orchestrator or of an agent; the agent summary's total is the number of
\* registered agents and its running, idle and failed counts sum to at most
\* that total, each counting the registered agents of that status; the
\* workflow summary's running count is the size of the in-flight set.
C25_SummariesReadOnly ==
    /\ [](LET summary == get_agent_status_summary
               ByStatus(status) ==
                   {a \in DOMAIN agents : objs[agents[a]].status = status}
           IN /\ summary.total_agents = Cardinality(DOMAIN agents)
              /\ summary.running_agents + summary.idle_agents + summary.failed_agents
                     <= summary.total_agents
              /\ summary.running_agents = Cardinality(ByStatus("running"))
              /\ summary.idle_agents = Cardinality(ByStatus("idle"))
              /\ summary.failed_agents = Cardinality(ByStatus("failed"))
              /\ DOMAIN summary.agent_details = DOMAIN agents)
    /\ [](LET summary == get_workflow_summary
           IN /\ summary.running_workflows = Cardinality(DOMAIN running_workflows)
              /\ summary.total_workflows = Cardinality(DOMAIN workflows)
              /\ \A w \in DOMAIN running_workflows :
                     w \in DOMAIN summary.workflow_details)
    /\ [][(GetAgentStatusSummary \/ GetWorkflowSummary)
             => UNCHANGED <<objs, orchVars, now>>]_vars

\* get_agent_status_summary returned while one agent was registered and
\* running, another instance had been removed from the registry, and a run
\* was in flight
C25_Witness ==
    /\ outcome = [op |-> "get_agent_status_summary", result |-> "returned"]
    /\ get_agent_status_summary.total_agents = 1
    /\ get_agent_status_summary.running_agents = 1
    /\ Cardinality(Objects) = 2
    /\ get_workflow_summary.running_workflows = 1

----------------------------------------------------------------------------
(* Claims about the worker loop's bookkeeping *)

\* the ids of the tasks whose capability call is in progress in a worker loop
Executing(ag) == {task.id : task \in ag.processing}

\* C26: a task the worker loop dequeues is marked running and becomes the
\* agent's current_task; when its capability returns it is marked completed
\* with the result stored, when it raises it is marked failed with the error
\* stored; current_task is cleared before the next task is dequeued, so that
\* current_task is set exactly while a dequeued task is executing, and is
\* that task.
C26_CurrentTaskWhileExecuting ==
    /\ [](\A o \in Objects :
            LET ag == objs[o]
            IN /\ (ag.current_task # NoTask) <=> (Executing(ag) # {})
               /\ ag.current_task # NoTask => ag.current_task \in Executing(ag)
               /\ \A t \in DOMAIN ag.tasks :
                     /\ ag.tasks[t].status = "running" <=> t \in Executing(ag)
                     /\ ag.tasks[t].status = "completed"
                           => ag.tasks[t].result = TaskResult /\ ag.tasks[t].error = None
                     /\ ag.tasks[t].status = "failed"
                           => ag.tasks[t].error = TaskError /\ ag.tasks[t].result = None)
    /\ [][\A o \in Objects \cap DOMAIN objs' :
            \A t \in Executing(objs'[o]) \ Executing(objs[o]) :
                /\ objs'[o].current_task = t
                /\ objs'[o].tasks[t].status = "running"
                /\ objs[o].current_task = NoTask
                      \/ objs[o].current_task \in Executing(objs[o]) \ Executing(objs'[o])]_vars

\* the tasks of the agent that a worker loop finished with the given status
Finished(ag, status) == {t \in DOMAIN ag.tasks : ag.tasks[t].status = status}

\* C27: tasks_completed counts the tasks whose capability returned in a worker
\* loop and tasks_failed those whose capability raised, so their sum is the
\* number of tasks the loops have finished; and whenever that sum is positive,
\* success_rate = tasks_completed / (tasks_completed + tasks_failed).
C27_MetricsCountFinishedTasks ==
    \A o \in Objects :
        LET ag == objs[o]
            total == ag.tasks_completed + ag.tasks_failed
        IN /\ ag.tasks_completed = Cardinality(Finished(ag, "completed"))
           /\ ag.tasks_failed = Cardinality(Finished(ag, "failed"))
           /\ total > 0 =>
                 /\ ag.success_rate[2] > 0
                 /\ ag.success_rate[1] * total = ag.tasks_completed * ag.success_rate[2]

\* one task completed and one failed, in that order: the rate is 1/2
C27_Witness ==
    \E o \in Objects :
        /\ objs[o].started = <<1, 2>>
        /\ objs[o].tasks[1].status = "completed"
        /\ objs[o].tasks[2].status = "failed"
        /\ objs[o].success_rate = <<1, 2>>

----------------------------------------------------------------------------
(* Claims about the input and output mappings *)

\* the pair at index i of the mapping has its result key in the result
Present(mapping, i, result) == mapping[i][1] \in DOMAIN result

\* the context keys that the pairs with a present result key map to
Written(mapping, result) ==
    {mapping[i][2] : i \in {j \in 1..Len(mapping) : Present(mapping, j, result)}}

\* what a successful attempt leaves besides the mapped context keys: every
\* other context key as it was, no key added, the full result under the step
\* id, and the step id appended to completed_steps
RestAfterSuccess(before, after, n, mapping, result) ==
    /\ DOMAIN after.context = DOMAIN before.context \cup Written(mapping, result)
    /\ \A k \in DOMAIN before.context \ Written(mapping, result) :
          after.context[k] = before.context[k]
    /\ n \in DOMAIN after.results
    /\ after.results[n] = result
    /\ after.completed_steps = Append(before.completed_steps, n)
    /\ after.failed_steps = before.failed_steps

\* C28 as claimed: after a successful step attempt the context holds, for
\* every output-mapping pair whose result key is present in the result, the
\* result's value at the mapped context key; pairs whose result key is missing
\* write nothing; every other context key is unchanged; the full result is
\* stored under the step id; the step id is appended to completed_steps.
C28_EveryPresentPairHeld ==
    [][\A e \in execs, result \in MergeResults :
          CallReturn(e, result) =>
              LET mapping == workflows[e.wf].steps[e.node].output_mapping
                  after == workflow_states'[e.wf]
              IN /\ \A i \in 1..Len(mapping) :
                        Present(mapping, i, result) =>
                            /\ mapping[i][2] \in DOMAIN after.context
                            /\ after.context[mapping[i][2]] = result[mapping[i][1]]
                 /\ RestAfterSuccess(workflow_states[e.wf], after, e.node, mapping, result)]_vars

\* C28 as amended: the same, for every pair whose result key is present and
\* whose context key is not also the context key of a later pair of the
\* mapping whose result key is present (the later pair's value is the one held).
C28_LastPresentPairHeld ==
    [][\A e \in execs, result \in MergeResults :
          CallReturn(e, result) =>
              LET mapping == workflows[e.wf].steps[e.node].output_mapping
                  after == workflow_states'[e.wf]
              IN /\ \A i \in 1..Len(mapping) :
                        (/\ Present(mapping, i, result)
                         /\ \A j \in (i + 1)..Len(mapping) :
                               ~(Present(mapping, j, result) /\ mapping[j][2] = mapping[i][2]))
                            => /\ mapping[i][2] \in DOMAIN after.context
                               /\ after.context[mapping[i][2]] = result[mapping[i][1]]
                 /\ RestAfterSuccess(workflow_states[e.wf], after, e.node, mapping, result)]_vars

\* B's capability returned both result fields that its output mapping sends
\* to context key z, which the input had set: z holds the value of the later
\* pair, and the other context keys are as the input and step A left them
C28_Witness ==
    \E w \in DOMAIN workflow_states :
        /\ hist[w].input = ("z" :> 1)
        /\ "B" \in DOMAIN workflow_states[w].results
        /\ workflow_states[w].results["B"] = ("out" :> 5) @@ ("alt" :> 4)
        /\ workflow_states[w].context = ("z" :> 4) @@ ("y" :> 5)
        /\ workflow_states[w].completed_steps = <<"A", "B">>

\* input_data is what the claim says of the input built from input_mapping and context
BuiltFrom(input_data, input_mapping, context) ==
    /\ DOMAIN input_data \subseteq DOMAIN input_mapping
    /\ \A field \in DOMAIN input_mapping :
          IF input_mapping[field] \in DOMAIN context
          THEN field \in DOMAIN input_data /\ input_data[field] = context[input_mapping[field]]
          ELSE field \notin DOMAIN input_data

\* C29: the input built for a step attempt (the payload of the task handed to
\* the agent) has, for each input-mapping pair (input field -> context key),
\* the context value at that key when the key is present and no entry when
\* it is absent, and nothing else; building it does not fail the attempt (a
\* step whose conditions hold goes on to resolve its agent) and leaves the
\* context unchanged.
C29_InputBuiltFromMapping ==
    [][/\ \A f \in execs' \ execs :
             f.pc \in {"init", "call"} =>
                 /\ BuiltFrom(f.payload, workflows[f.wf].steps[f.node].input_mapping,
                              workflow_states[f.wf].context)
                 /\ workflow_states'[f.wf].context = workflow_states[f.wf].context
       /\ \A e \in execs :
             (/\ e.pc = "node"
              /\ check_conditions(workflows[e.wf].steps[e.node].conditions,
                                  workflow_states[e.wf].context)
              /\ NodeStart(e))
                 => /\ \E f \in execs' \ execs :
                          f.wf = e.wf /\ f.node = e.node /\ f.pc \in {"init", "call"}
                    /\ workflow_states'[e.wf].failed_steps = workflow_states[e.wf].failed_steps]_vars

\* B's capability is in progress on an input that has both fields of B's
\* input mapping, and A's was called on an input without its one field,
\* whose context key x the run's input did not have
C29_Witness ==
    \E e \in execs :
        /\ e.pc = "call"
        /\ e.node = "B"
        /\ e.payload = ("in" :> 5) @@ ("aux" :> 1)
        /\ "x" \notin DOMAIN workflow_states[e.wf].context
        /\ hist[e.wf].calls["A"] = 1

----------------------------------------------------------------------------
(* Claims about the agents of steps *)

\* the composite id of the agent of the step that call f is at
StepAgentId(f) ==
    AgentId(workflows[f.wf].steps[f.node].agent_type, workflows[f.wf].steps[f.node].id)

----------------------------------------------------------------------------
(* Claims about the order of steps and attempts within a run *)

\* the step function of node n has returned in the current run of w: each of
\* its return paths records the step as completed or as failed
StepReturned(w, n) ==
    \/ InSeq(workflow_states[w].completed_steps, n)
    \/ InSeq(workflow_states[w].failed_steps, n)

\* the attempts in progress in run r of workflow w: calls suspended in the
\* start of the step's agent or in its capability
AttemptsInProgress(w, r) ==
    {e \in ExecsOf(w) : e.run = r /\ e.pc \in {"init", "call"}}

\* C31: within one run of the graph A -> B -> END, at most one attempt is in
\* progress at any time; B is entered only after A's step function returned,
\* and A is not entered again afterwards; and an attempt of a step starts
\* either as the step's first attempt, when the run arrives at the step, or as
\* a retry in the very step in which the previous attempt of that step failed.
C31_StepsInOrderAttemptsSerialized ==
    /\ [](\A w \in DOMAIN workflow_states : \A r \in 1..MaxRuns :
             Cardinality(AttemptsInProgress(w, r)) <= 1)
    /\ [](\A e \in execs :
             /\ (e.pc \in {"node", "init", "call"} /\ e.node = "B")
                    => StepReturned(e.wf, "A")
             /\ hist[e.wf].attempts["B"] > 0 => StepReturned(e.wf, "A")
             /\ (e.pc \in {"node", "init", "call"} /\ e.node = "A")
                    => /\ hist[e.wf].attempts["B"] = 0
                       /\ ~StepReturned(e.wf, "A")
                       /\ ~StepReturned(e.wf, "B"))
    /\ [][\A w \in DOMAIN hist : \A n \in DOMAIN Connections :
             (/\ w \in DOMAIN hist'
              /\ hist'[w].runs = hist[w].runs
              /\ hist'[w].attempts[n] # hist[w].attempts[n])
                 => /\ hist'[w].attempts[n] = hist[w].attempts[n] + 1
                    /\ \E e \in ExecsOf(w) :
                          /\ e.node = n
                          /\ \/ e.pc = "node" /\ hist[w].attempts[n] = 0
                             \/ /\ e.pc \in {"init", "call"}
                                /\ hist[w].attempts[n] > 0
                                /\ workflows'[w].steps[n].retry_count =
                                       workflows[w].steps[n].retry_count + 1
                          /\ \E f \in execs' :
                                /\ f.wf = w /\ f.run = e.run /\ f.node = n
                                /\ f.pc \in {"init", "call"}]_vars

\* the second attempt of B is in progress after its first attempt failed, in
\* a run whose step A returned after two attempts
C31_Witness ==
    \E e \in execs :
        /\ e.pc = "call"
        /\ e.node = "B"
        /\ hist[e.wf].attempts["A"] = 2
        /\ hist[e.wf].attempts["B"] = 2
        /\ workflow_states[e.wf].completed_steps = <<"A">>
        /\ workflow_states[e.wf].failed_steps = <<>>

----------------------------------------------------------------------------
(* Claims about what cancellation leaves in place *)

\* the run state without its status and completed_at
RecordedSoFar(ws) ==
    [ context |-> ws.context,
      results |-> ws.results,
      completed_steps |-> ws.completed_steps,
      failed_steps |-> ws.failed_steps,
      current_step |-> ws.current_step,
      error |-> ws.error,
      started_at |-> ws.started_at ]

\* C32: a cancel_workflow call for a workflow with a run in flight changes,
\* of that run state, only status and completed_at: context, results,
\* completed_steps, failed_steps, current_step and error stay as recorded;
\* it requests cancellation of the run's inner task when that is not done,
\* and it changes no other run state, no graph, no agent and no registry.
C32_CancelKeepsRecordedState ==
    [][\A w \in WorkflowIds :
          (w \in DOMAIN running_workflows /\ cancel_workflow(w))
              => /\ RecordedSoFar(workflow_states'[w]) = RecordedSoFar(workflow_states[w])
                 /\ \A v \in DOMAIN workflow_states \ {w} :
                        workflow_states'[v] = workflow_states[v]
                 /\ DOMAIN workflow_states' = DOMAIN workflow_states
                 /\ \A e \in ExecsOf(w) :
                        IF e.pc \in {"done", "cancelled"}
                        THEN e \in execs'
                        ELSE [e EXCEPT !.cancel = TRUE] \in execs'
                 /\ Cardinality(execs') = Cardinality(execs)
                 /\ UNCHANGED <<objs, agents, workflows, running_workflows, calls, hist>>]_vars

\* a run was cancelled while step B awaited its capability, after step A had
\* failed: what A's failure and B's entry recorded is still in the run state
C32_Witness ==
    \E e \in execs :
        /\ outcome = [op |-> "cancel_workflow", wf |-> e.wf, result |-> "ok"]
        /\ e.cancel
        /\ e.pc = "call"
        /\ e.node = "B"
        /\ workflow_states[e.wf].status = "cancelled"
        /\ workflow_states[e.wf].current_step = "B"
        /\ workflow_states[e.wf].failed_steps = <<"A">>
        /\ workflow_states[e.wf].error # None
        /\ workflow_states[e.wf].context = ("x" :> 3)

----------------------------------------------------------------------------
(* Claims about steps and the queues of their agents *)

\* what the queue machinery of an agent holds: the pending queue, the task
\* being executed by a worker loop, the counters of finished tasks, and the
\* add_task calls received
QueueView(ag) ==
    [ task_queue |-> ag.task_queue,
      current_task |-> ag.current_task,
      tasks_completed |-> ag.tasks_completed,
      tasks_failed |-> ag.tasks_failed,
      success_rate |-> ag.success_rate,
      arrivals |-> ag.arrivals,
      processing |-> ag.processing ]

\* a stretch of the step function run by call e: entering a step, resuming
\* after the agent's start, after the capability returned, after it raised
StepStretch(e) ==
    \/ NodeStart(e)
    \/ InitDone(e, TRUE)
    \/ CallReturn(e, ("out" :> 5))
    \/ CallRaise(e)

\* C33: no stretch of a step changes the pending queue, current_task or the
\* completed/failed counters of any agent, nor submits a task to one: the
\* step holds the capability call itself, on the resolved agent, and an agent
\* a step constructs starts with an empty queue and zero counters.
C33_StepBypassesQueue ==
    [][\A e \in execs :
          StepStretch(e) =>
              /\ \A o \in Objects : QueueView(objs'[o]) = QueueView(objs[o])
              /\ \A o \in DOMAIN objs' \ Objects : QueueView(objs'[o]) = QueueView(BaseAgent)
              /\ \A f \in execs' :
                    (f.wf = e.wf /\ f.pc = "call")
                        => /\ f.obj \in DOMAIN objs'
                           /\ objs'[f.obj].agent_id = StepAgentId(f)
                           /\ hist'[f.wf].calls[f.node] >= 1]_vars

\* step A completed by a direct call of its running agent while a task
\* submitted to that agent was still pending in its queue; the queue, the
\* current task and the counters are as the submission left them
C33_Witness ==
    \E w \in DOMAIN workflow_states : \E o \in Objects :
        /\ objs[o].agent_id = "worker_A"
        /\ objs[o].is_running
        /\ Len(objs[o].task_queue) = 1
        /\ objs[o].current_task = NoTask
        /\ objs[o].tasks_completed = 0
        /\ objs[o].tasks_failed = 0
        /\ InSeq(workflow_states[w].completed_steps, "A")
        /\ hist[w].calls["A"] = 1
        /\ \E e \in ExecsOf(w) : e.pc = "node" /\ e.node = "B"

----------------------------------------------------------------------------
(* Claims about an agent's memory *)

\* the n most recently added of the messages added so far to ag, oldest first
MostRecent(ag, n) == [i \in 1..n |-> ag.remembered - n + i]

\* C34: an agent's short-term memory never holds more than 100 messages; an
\* update_memory call that would make it hold more than 100 leaves exactly
\* the 50 most recently added messages, oldest first, and any other call
\* leaves the messages held before followed by the messages given.
C34_ShortTermBounded ==
    /\ [](\A o \in Objects : Len(objs[o].short_term) <= ShortTermLimit)
    /\ [][\A o \in Objects, n \in BatchSizes :
            (\E long_term \in MemoryUpdates, episodic \in MemoryUpdates, semantic \in MemoryUpdates :
                 UpdateMemory(o, n, long_term, episodic, semantic))
                => IF Len(objs[o].short_term) + n > ShortTermLimit
                   THEN /\ Len(objs'[o].short_term) = ShortTermKept
                        /\ objs'[o].short_term = MostRecent(objs'[o], ShortTermKept)
                   ELSE objs'[o].short_term = objs[o].short_term \o Batch(objs[o], n)]_vars

\* the update that brought the messages added to 101 cut the memory: it holds
\* messages 52 to 101
C34_Witness ==
    \E o \in Objects :
        /\ objs[o].remembered = ShortTermLimit + 1
        /\ objs[o].updates = 3
        /\ Len(objs[o].short_term) = ShortTermKept
        /\ objs[o].short_term[1] = ShortTermLimit + 2 - ShortTermKept

----------------------------------------------------------------------------
(* Claims about cancellation racing with the end of a run *)

\* C35: a run state whose status is cancelled keeps that status in every step
\* that does not start a new run of its workflow: no later step of the
\* execute_workflow call that drove the cancelled run sets it to completed or
\* failed.
C35_CancelledStaysCancelled ==
    [][\A w \in DOMAIN workflow_states :
          (workflow_states[w].status = "cancelled" /\ hist'[w].runs = hist[w].runs)
              => workflow_states'[w].status = "cancelled"]_vars

----------------------------------------------------------------------------
(* Claims about the in-flight set *)

\* C36: a workflow id is in running_workflows exactly while an
\* execute_workflow call for it is in progress; the step in which a call ends
\* (returning a completed or failed run, or leaving with the cancellation)
\* takes the id out; and an execute_workflow call for a compiled id with no
\* call in progress is accepted.
C36_InFlightWhileCallInProgress ==
    /\ [](\A w \in WorkflowIds : w \in DOMAIN running_workflows <=> ExecsOf(w) # {})
    /\ [][\A e \in execs :
            ExecuteResume(e) =>
                /\ e.wf \notin DOMAIN running_workflows'
                /\ {f \in execs' : f.wf = e.wf} = {}]_vars
    /\ [][\A w \in WorkflowIds, input_data \in Inputs :
            (w \in DOMAIN workflows /\ ExecsOf(w) = {} /\ execute_workflow(w, input_data))
                => /\ w \in DOMAIN running_workflows'
                   /\ workflow_states'[w].status = "running"
                   /\ \E f \in execs' : f.wf = w /\ f.run = hist[w].runs + 1
                   /\ outcome' = outcome]_vars

\* after the call of a cancelled run ended with the cancellation, a second
\* execute_workflow call for the id was accepted and is in progress
C36_Witness ==
    \E e \in execs :
        /\ e.run = 2
        /\ e.pc = "call"
        /\ outcome = [op |-> "execute_workflow", wf |-> e.wf, result |-> "CancelledError"]
        /\ e.wf \in DOMAIN running_workflows
        /\ workflow_states[e.wf].status = "running"

----------------------------------------------------------------------------
(* Claims about the agents a step invokes *)

\* C37: whenever a step awaits the capability of an agent, the start of that
\* agent has completed successfully (no agent is stopped in the runs
\* considered, so a started agent is one that is running).
C37_InvokedAgentsAreStarted ==
    \A e \in execs :
        e.pc = "call" => /\ objs[e.obj].is_running
                         /\ objs[e.obj].starting = 0

----------------------------------------------------------------------------
(* Claims about the termination of a run *)

\* the capability invocations made so far in the latest run of w, over the steps N
RECURSIVE Invocations(_, _)
Invocations(w, N) ==
    IF N = {} THEN 0
    ELSE LET n == CHOOSE x \in N : TRUE
         IN hist[w].calls[n] + Invocations(w, N \ {n})

\* the sum, over the steps N of w, of max_retries + 1
RECURSIVE InvocationBudget(_, _)
InvocationBudget(w, N) ==
    IF N = {} THEN 0
    ELSE LET n == CHOOSE x \in N : TRUE
         IN workflows[w].steps[n].max_retries + 1 + InvocationBudget(w, N \ {n})

\* C38: every accepted execute_workflow call for the graph A -> B -> END,
\* whose capability calls and agent starts return or raise, ends, and when it
\* has ended the run state has status completed, failed or cancelled; and a
\* run makes at most the sum over its steps of max_retries + 1 capability
\* invocations.
C38_RunsEndWithinBudget ==
    /\ \A w \in WorkflowIds :
          (w \in DOMAIN running_workflows)
              ~> (/\ w \notin DOMAIN running_workflows
                  /\ ExecsOf(w) = {}
                  /\ w \in DOMAIN workflow_states
                  /\ workflow_states[w].status \in Terminal)
    /\ [](\A w \in DOMAIN hist :
             Invocations(w, DOMAIN workflows[w].steps)
                 <= InvocationBudget(w, DOMAIN workflows[w].steps))
    /\ [][\A e \in execs :
             ExecuteResume(e) => workflow_states'[e.wf].status \in Terminal]_vars

\* a run has ended after it used its whole budget: each step's capability
\* raised once and returned on the retry
C38_Witness ==
    \E w \in DOMAIN hist :
        /\ outcome = Returned(w)
        /\ ExecsOf(w) = {}
        /\ w \notin DOMAIN running_workflows
        /\ hist[w].calls["A"] = workflows[w].steps["A"].max_retries + 1
        /\ hist[w].calls["B"] = workflows[w].steps["B"].max_retries + 1
        /\ Invocations(w, DOMAIN workflows[w].steps) = InvocationBudget(w, DOMAIN workflows[w].steps)
        /\ workflow_states[w].status = "completed"

----------------------------------------------------------------------------
(* Claims about the timestamps of a run state *)

\* C39: a run state with status running has no completed_at, and a run state
\* with both timestamps has a completed_at that is not earlier than its
\* started_at, in first and in later runs of a workflow id.
C39_TimestampsConsistent ==
    \A w \in DOMAIN workflow_states :
        LET ws == workflow_states[w]
        IN /\ ws.status = "running" => ws.completed_at = NoTime
           /\ (ws.started_at # NoTime /\ ws.completed_at # NoTime)
                  => ws.completed_at >= ws.started_at

----------------------------------------------------------------------------
(* Claims about an agent's lifecycle flags *)

\* C40: at every moment of every sequence of start and stop calls on an
\* agent, whether initialize and cleanup return or raise, is_running is true
\* exactly when the agent's status is running.
C40_RunningFlagMatchesStatus ==
    \A o \in Objects : objs[o].is_running <=> objs[o].status = "running"

\* an agent that was started and then stopped by a stop() whose cleanup raised:
\* it is not running, its status is failed, and the worker loop of its one
\* start has not yet seen the flag
C40_Witness ==
    \E o \in Objects :
        /\ objs[o].starts = 1
        /\ objs[o].waiting = 1
        /\ objs[o].starting = 0
        /\ objs[o].stopping = 0
        /\ ~objs[o].is_running
        /\ objs[o].status = "failed"

====
